---- MODULE Spec2Model ----
(***************************************************************************)
(* Model of the timeline parser of chronomap-ai                            *)
(* (src/services/dataProcessor.ts): locating the record array of a parsed  *)
(* JSON document, converting each record to events, sorting them, and     *)
(* aggregating an event list into its statistics.                          *)
(***************************************************************************)
EXTENDS Integers, Sequences, FiniteSets, TLC

(***************************************************************************)
(* JavaScript values.  A scalar is [ty, m, e, s]: ty is the result of      *)
(* typeof (with "null" for null); a number is m * 10^(-e), or NaN when     *)
(* s = "NaN"; a string is s; a boolean is m = 1 / m = 0; "object" stands   *)
(* for a nested object or array found where the code expects a scalar.     *)
(***************************************************************************)
JsVal(ty, m, e, s) == [ty |-> ty, m |-> m, e |-> e, s |-> s]

Undefined == JsVal("undefined", 0, 0, "")

JsNull == JsVal("null", 0, 0, "")

Num(m, e) == JsVal("number", m, e, "")

NaN == JsVal("number", 0, 0, "NaN")

Str(s) == JsVal("string", 0, 0, s)

JsTrue == JsVal("boolean", 1, 0, "")

JsObject == JsVal("object", 0, 0, "")

\* ToBoolean, as used by `a || b`, `a ? b : c`, `if (a)` and `!a`.
Truthy(v) ==
    CASE v.ty = "undefined" -> FALSE
      [] v.ty = "null"      -> FALSE
      [] v.ty = "number"    -> v.s # "NaN" /\ v.m # 0
      [] v.ty = "string"    -> v.s # ""
      [] v.ty = "boolean"   -> v.m = 1
      [] OTHER              -> TRUE

\* a || b
Or(a, b) == IF Truthy(a) THEN a ELSE b

\* typeof v === 'number' && Number.isFinite(v)
IsFiniteNumber(v) == v.ty = "number" /\ v.s = ""

(***************************************************************************)
(* Text the parser decodes.  Each table lists the strings of the model's   *)
(* inputs with what the JavaScript conversion makes of them; any other     *)
(* string is one the conversion rejects.                                   *)
(***************************************************************************)
\* str.match(/([-+]?\d*\.?\d+)°,\s*([-+]?\d*\.?\d+)°/) with parseFloat of
\* both groups.
LatLngText ==
    ("34.5°, -118.25°" :> <<Num(345, 1), Num(-11825, 2)>>) @@
    ("12.5°, 7.5°"     :> <<Num(125, 1), Num(75, 1)>>) @@
    ("0°, 0°"          :> <<Num(0, 0), Num(0, 0)>>)

\* parseFloat(s) for a string s.
FloatText ==
    ("515000000" :> Num(515000000, 0)) @@
    ("-3400000"  :> Num(-3400000, 0)) @@
    ("0"         :> Num(0, 0))

\* Date.parse(s) in milliseconds since the epoch.
DateText ==
    ("1970-01-01T00:00:00.001Z" :> 1) @@
    ("1970-01-01T00:00:00.002Z" :> 2) @@
    ("1970-01-01T00:00:00.003Z" :> 3) @@
    ("1970-01-01T00:00:00.004Z" :> 4) @@
    ("1970-01-09T00:00:00.000Z" :> 691200000) @@
    ("1970-01-09T00:00:00.001Z" :> 691200001)

\* address.split(',').map(p => p.trim())
AddressParts ==
    ("1 Elm St, Los Angeles, CA 90012, USA" :>
        <<"1 Elm St", "Los Angeles", "CA 90012", "USA">>) @@
    ("Suite 5, 1 Elm St, Los Angeles, CA 90012, USA" :>
        <<"Suite 5", "1 Elm St", "Los Angeles", "CA 90012", "USA">>) @@
    ("Los Angeles, CA 90012, USA" :> <<"Los Angeles", "CA 90012", "USA">>) @@
    ("Main St, Springfield, Illinois" :> <<"Main St", "Springfield", "Illinois">>) @@
    ("Springfield, IL" :> <<"Springfield", "IL">>) @@
    (" Portland ,OR" :> <<"Portland", "OR">>) @@
    ("Springfield" :> <<"Springfield">>)

\* /\d/.test(part) for the parts of AddressParts.
HasDigit(part) == part \in {"Suite 5", "1 Elm St", "CA 90012"}

\* s.replace(/_/g, ' ')
UnderscoreText ==
    ("IN_PASSENGER_VEHICLE" :> "IN PASSENGER VEHICLE") @@
    ("WALKING" :> "WALKING") @@
    ("MOVE" :> "MOVE")

(***************************************************************************)
(* Dates.  A Date is [valid, t, limit]: t is getTime() in milliseconds,    *)
(* and valid = FALSE is the Invalid Date, whose getTime() is NaN.  The two *)
(* extreme time values +-8640000000000000, beyond the integers of the      *)
(* checker, are limit = 1 and limit = -1; every other date has limit = 0.  *)
(***************************************************************************)
InvalidDate == [valid |-> FALSE, t |-> 0, limit |-> 0]

\* The date whose getTime() is t.
DateAt(t) == [valid |-> TRUE, t |-> t, limit |-> 0]

\* The integer part of the number m * 10^(-e).
Truncate(v) ==
    IF v.m >= 0 THEN v.m \div (10 ^ v.e) ELSE 0 - ((0 - v.m) \div (10 ^ v.e))

\* new Date(v): a string is parsed, a number, boolean or null is taken as
\* milliseconds, undefined and {} give the Invalid Date.
NewDate(v) ==
    CASE v.ty = "string" ->
            IF v.s \in DOMAIN DateText
            THEN DateAt(DateText[v.s]) ELSE InvalidDate
      [] v.ty = "number" /\ v.s = "" -> DateAt(Truncate(v))
      [] v.ty = "boolean" -> DateAt(v.m)
      [] v.ty = "null" -> DateAt(0)
      [] OTHER -> InvalidDate

\* isNaN(d.getTime())
IsNaNTime(d) == ~d.valid

(***************************************************************************)
(* parseLatLngString and e7ToFloat.                                        *)
(***************************************************************************)
NoCoords == [ok |-> FALSE, lat |-> Undefined, lng |-> Undefined]

parseLatLngString(str) ==
    IF str.ty # "string" THEN NoCoords
    ELSE IF str.s \in DOMAIN LatLngText
         THEN [ok |-> TRUE, lat |-> LatLngText[str.s][1], lng |-> LatLngText[str.s][2]]
         ELSE NoCoords

\* The decimal exponent of 1e7.
E7Digits == 7

parseFloat(s) == IF s \in DOMAIN FloatText THEN FloatText[s] ELSE NaN

\* x / 1e7
DivE7(x) == IF x.s = "NaN" THEN NaN ELSE Num(x.m, x.e + E7Digits)

e7ToFloat(e7) ==
    CASE e7.ty = "number" -> DivE7(e7)
      [] e7.ty = "string" -> DivE7(parseFloat(e7.s))
      [] OTHER -> Num(0, 0)

(***************************************************************************)
(* extractCity.  The outcome is [threw, value]: calling split on a truthy  *)
(* value that is not a string raises a TypeError.                          *)
(***************************************************************************)
Returned(v) == [threw |-> FALSE, value |-> v]

Raised == [threw |-> TRUE, value |-> Undefined]

\* extractCity without the test for digits in the region part.
extractCity_NoDigitTest(address) ==
    IF ~Truthy(address) THEN Returned(Undefined)
    ELSE IF address.ty # "string" THEN Raised
    ELSE LET parts == IF address.s \in DOMAIN AddressParts
                      THEN AddressParts[address.s] ELSE <<address.s>>
             n == Len(parts)
         IN IF n >= 3 THEN Returned(Str(parts[n - 1])) ELSE Returned(Str(parts[1]))

extractCity(address) ==
    IF ~Truthy(address) THEN Returned(Undefined)
    ELSE IF address.ty # "string" THEN Raised
    ELSE LET parts == IF address.s \in DOMAIN AddressParts
                      THEN AddressParts[address.s] ELSE <<address.s>>
             n == Len(parts)
         IN IF n >= 3
            THEN IF HasDigit(parts[n - 1])
                 THEN Returned(Str(parts[n - 2]))
                 ELSE Returned(Str(parts[n - 1]))
            ELSE IF n = 2 THEN Returned(Str(parts[1]))
            ELSE IF n > 0 THEN Returned(Str(parts[1]))
            ELSE Returned(Undefined)

(***************************************************************************)
(* JSON records.  Nested objects that the code reads only through `?.` or  *)
(* `|| {}` are flattened into their fields (an absent object is one whose  *)
(* fields are all Undefined); an object whose own truthiness or nullness   *)
(* the code depends on carries a ty field.                                 *)
(***************************************************************************)
\* duration: { startTimestamp, endTimestamp, startTime, endTime }
NoDuration ==
    [startTimestamp |-> Undefined, endTimestamp |-> Undefined,
     startTime |-> Undefined, endTime |-> Undefined]

\* types.ts Location, plus the lat / lng keys the legacy branch reads.
NoLocation ==
    [ty |-> "undefined",
     latitudeE7 |-> Undefined, longitudeE7 |-> Undefined,
     latitude |-> Undefined, longitude |-> Undefined,
     lat |-> Undefined, lng |-> Undefined,
     address |-> Undefined, placeId |-> Undefined, name |-> Undefined]

EmptyLocation == [NoLocation EXCEPT !.ty = "object"]

\* The value of a "visit" or "placeVisit" member.  name, latLng, address
\* and placeId are topCandidate.name, topCandidate.placeLocation.latLng,
\* topCandidate.placeLocation.address and topCandidate.placeId.
NoVisit ==
    [ty |-> "undefined",
     name |-> Undefined, latLng |-> Undefined, address |-> Undefined,
     placeId |-> Undefined,
     location |-> NoLocation, duration |-> NoDuration]

\* The value of an "activity" or "activitySegment" member.  startLatLng,
\* endLatLng and type are start.latLng, end.latLng and topCandidate.type.
NoActivity ==
    [ty |-> "undefined",
     startLatLng |-> Undefined, endLatLng |-> Undefined, type |-> Undefined,
     distanceMeters |-> Undefined,
     duration |-> NoDuration, activityType |-> Undefined,
     endLocation |-> NoLocation, startLocation |-> NoLocation,
     distance |-> Undefined]

\* An entry of timelinePath: { point, time }, or null.
PathPoint(point, time) == [ty |-> "object", point |-> point, time |-> time]

NullPathPoint == [ty |-> "null", point |-> Undefined, time |-> Undefined]

\* The value of a "timelinePath" member: ty = "array" for an array.
NoPath == [ty |-> "undefined", pts |-> <<>>]

PathArray(pts) == [ty |-> "array", pts |-> pts]

\* The value of a "position" member.
NoPosition == [ty |-> "undefined", LatLng |-> Undefined, timestamp |-> Undefined]

\* An element of the record array.  otherKeys are the keys the element
\* holds besides the ones below (the converter never reads them).
EmptyItem ==
    [ty |-> "object",
     startTime |-> Undefined, endTime |-> Undefined, duration |-> NoDuration,
     visit |-> NoVisit, activity |-> NoActivity, timelinePath |-> NoPath,
     position |-> NoPosition,
     placeVisit |-> NoVisit, activitySegment |-> NoActivity,
     otherKeys |-> {}]

\* A null element and a primitive element (a number): neither has members.
NullItem == [EmptyItem EXCEPT !.ty = "null"]

PrimitiveItem == [EmptyItem EXCEPT !.ty = "number"]

\* Truthiness of a nested value by its type tag ("boolean" is true,
\* "string" a non-empty string).
TruthyObj(o) == o.ty \in {"object", "array", "boolean", "string"}

(***************************************************************************)
(* Events (types.ts ProcessedEvent).  id is the template literal           *)
(* `${tag}-${index}` or `tp-${index}-${pIdx}`, kept as its parts; fields   *)
(* an event does not set are Undefined.  subtitle and raw are display      *)
(* only and are left out.                                                  *)
(***************************************************************************)
NoIdx == -1

EventId(tag, index, pIdx) == [tag |-> tag, index |-> index, pIdx |-> pIdx]

\* The characters of the tags and of the decimal text of an index.
TagText ==
    ("v" :> <<"v">>) @@ ("a" :> <<"a">>) @@ ("tp" :> <<"t", "p">>) @@
    ("rs" :> <<"r", "s">>) @@
    ("legacy-v" :> <<"l", "e", "g", "a", "c", "y", "-", "v">>) @@
    ("legacy-a" :> <<"l", "e", "g", "a", "c", "y", "-", "a">>)

DigitText == <<"0", "1", "2", "3", "4", "5", "6", "7", "8", "9">>

RECURSIVE Decimal(_)
Decimal(n) ==
    IF n < 10 THEN <<DigitText[n + 1]>>
    ELSE Append(Decimal(n \div 10), DigitText[(n % 10) + 1])

\* IdText that leaves the path index out: `tp-${index}`.
IdText_NoPathIndex(id) == TagText[id.tag] \o <<"-">> \o Decimal(id.index)

\* The string the template literal makes, as its characters.
IdText(id) ==
    TagText[id.tag] \o <<"-">> \o Decimal(id.index)
        \o (IF id.pIdx = NoIdx THEN <<>> ELSE <<"-">> \o Decimal(id.pIdx))

\* What the body of the forEach callback does for one record: the events
\* it pushes, or a TypeError (threw) that aborts the whole loop.
Pushed(evs) == [threw |-> FALSE, events |-> evs]

Thrown == [threw |-> TRUE, events |-> <<>>]

(***************************************************************************)
(* parseTimelineData: the body of rawItems.forEach((obj, index) => ...).   *)
(***************************************************************************)
\* Decimation steps: pIdx % 5 and index % 50.
PathStep == 5

RawStep == 50

\* type.replace(/_/g, ' ') for a string.
ReplaceUnderscores(s) == IF s \in DOMAIN UnderscoreText THEN UnderscoreText[s] ELSE s

\* if (obj.visit) { ... } : lines 183-207.
SemanticVisit(obj, index, start, end) ==
    LET coords == parseLatLngString(obj.visit.latLng)
    IN IF coords.ok /\ ~IsNaNTime(start)
       THEN LET name == Or(obj.visit.name, Str("Visited Place"))
                city == extractCity(obj.visit.address)
            IN IF city.threw THEN Thrown
               ELSE Pushed(<<[id |-> EventId("v", index, NoIdx),
                              type |-> "VISIT",
                              title |-> name,
                              startTime |-> start,
                              endTime |-> end,
                              lat |-> coords.lat,
                              lng |-> coords.lng,
                              city |-> city.value,
                              placeId |-> obj.visit.placeId,
                              distanceMeters |-> Undefined,
                              activityType |-> Undefined]>>)
       ELSE Pushed(<<>>)

\* else if (obj.activity) { ... } : lines 209-229.
SemanticActivity(obj, index, start, end) ==
    LET endCoords == parseLatLngString(obj.activity.endLatLng)
        type == Or(obj.activity.type, Str("MOVE"))
    IN IF endCoords.ok /\ ~IsNaNTime(start)
       THEN IF type.ty # "string" THEN Thrown
            ELSE Pushed(<<[id |-> EventId("a", index, NoIdx),
                           type |-> "MOVE",
                           title |-> Str(ReplaceUnderscores(type.s)),
                           startTime |-> start,
                           endTime |-> end,
                           lat |-> endCoords.lat,
                           lng |-> endCoords.lng,
                           city |-> Undefined,
                           placeId |-> Undefined,
                           distanceMeters |-> obj.activity.distanceMeters,
                           activityType |-> Str(ReplaceUnderscores(type.s))]>>)
       ELSE Pushed(<<>>)

\* PathPoints without `if (pIdx % 5 === 0)`: every entry is kept.
RECURSIVE PathPoints_NoDecimation(_, _, _, _)
PathPoints_NoDecimation(pts, i, index, startTime) ==
    IF i > Len(pts) THEN Pushed(<<>>)
    ELSE LET pathPt == pts[i]
             pIdx == i - 1
         IN IF pathPt.ty \in {"null", "undefined"} THEN Thrown
            ELSE LET coords == parseLatLngString(pathPt.point)
                     ptTime == NewDate(Or(pathPt.time, startTime))
                     here == IF coords.ok /\ ~IsNaNTime(ptTime)
                             THEN <<[id |-> EventId("tp", index, pIdx),
                                     type |-> "POINT",
                                     title |-> Str("Path Point"),
                                     startTime |-> ptTime,
                                     endTime |-> ptTime,
                                     lat |-> coords.lat,
                                     lng |-> coords.lng,
                                     city |-> Undefined,
                                     placeId |-> Undefined,
                                     distanceMeters |-> Undefined,
                                     activityType |-> Undefined]>>
                             ELSE <<>>
                     rest == PathPoints_NoDecimation(pts, i + 1, index, startTime)
                 IN IF rest.threw THEN Thrown ELSE Pushed(here \o rest.events)

\* The callback of obj.timelinePath.forEach((pathPt, pIdx) => ...) for the
\* entries from position i on (pIdx = i - 1): lines 232-250.
RECURSIVE PathPoints(_, _, _, _)
PathPoints(pts, i, index, startTime) ==
    IF i > Len(pts) THEN Pushed(<<>>)
    ELSE LET pathPt == pts[i]
             pIdx == i - 1
         IN IF pathPt.ty \in {"null", "undefined"} THEN Thrown
            ELSE LET coords == parseLatLngString(pathPt.point)
                     ptTime == NewDate(Or(pathPt.time, startTime))
                     here == IF coords.ok /\ ~IsNaNTime(ptTime) /\ pIdx % PathStep = 0
                             THEN <<[id |-> EventId("tp", index, pIdx),
                                     type |-> "POINT",
                                     title |-> Str("Path Point"),
                                     startTime |-> ptTime,
                                     endTime |-> ptTime,
                                     lat |-> coords.lat,
                                     lng |-> coords.lng,
                                     city |-> Undefined,
                                     placeId |-> Undefined,
                                     distanceMeters |-> Undefined,
                                     activityType |-> Undefined]>>
                             ELSE <<>>
                     rest == PathPoints(pts, i + 1, index, startTime)
                 IN IF rest.threw THEN Thrown ELSE Pushed(here \o rest.events)

\* RawSignal without `if (index % 50 === 0)`: every record is kept.
RawSignal_NoDecimation(obj, index) ==
    LET coords == parseLatLngString(obj.position.LatLng)
        ts == obj.position.timestamp
    IN IF coords.ok /\ Truthy(ts)
       THEN LET date == NewDate(ts)
            IN IF ~IsNaNTime(date)
               THEN Pushed(<<[id |-> EventId("rs", index, NoIdx),
                              type |-> "POINT",
                              title |-> Str("Raw Signal"),
                              startTime |-> date,
                              endTime |-> date,
                              lat |-> coords.lat,
                              lng |-> coords.lng,
                              city |-> Undefined,
                              placeId |-> Undefined,
                              distanceMeters |-> Undefined,
                              activityType |-> Undefined]>>)
               ELSE Pushed(<<>>)
       ELSE Pushed(<<>>)

\* else if (obj.position) { ... } : lines 254-276.
RawSignal(obj, index) ==
    LET coords == parseLatLngString(obj.position.LatLng)
        ts == obj.position.timestamp
    IN IF coords.ok /\ Truthy(ts)
       THEN LET date == NewDate(ts)
            IN IF ~IsNaNTime(date) /\ index % RawStep = 0
               THEN Pushed(<<[id |-> EventId("rs", index, NoIdx),
                              type |-> "POINT",
                              title |-> Str("Raw Signal"),
                              startTime |-> date,
                              endTime |-> date,
                              lat |-> coords.lat,
                              lng |-> coords.lng,
                              city |-> Undefined,
                              placeId |-> Undefined,
                              distanceMeters |-> Undefined,
                              activityType |-> Undefined]>>)
               ELSE Pushed(<<>>)
       ELSE Pushed(<<>>)

\* LegacyVisit with `if (startStr)` in place of `if (lat && lng && startStr)`.
LegacyVisit_NoZeroCheck(placeVisit, index) ==
    LET loc == placeVisit.location
        lat == IF Truthy(loc.latitudeE7) THEN e7ToFloat(loc.latitudeE7)
               ELSE Or(loc.latitude, Or(loc.lat, Num(0, 0)))
        lng == IF Truthy(loc.longitudeE7) THEN e7ToFloat(loc.longitudeE7)
               ELSE Or(loc.longitude, Or(loc.lng, Num(0, 0)))
        startStr == Or(placeVisit.duration.startTimestamp, placeVisit.duration.startTime)
    IN IF Truthy(startStr)
       THEN LET start == NewDate(startStr)
                end == NewDate(Or(placeVisit.duration.endTimestamp, startStr))
                city == extractCity(loc.address)
            IN IF city.threw THEN Thrown
               ELSE Pushed(<<[id |-> EventId("legacy-v", index, NoIdx),
                              type |-> "VISIT",
                              title |-> Or(loc.name, Str("Visited Place")),
                              startTime |-> start,
                              endTime |-> end,
                              lat |-> lat,
                              lng |-> lng,
                              city |-> city.value,
                              placeId |-> loc.placeId,
                              distanceMeters |-> Undefined,
                              activityType |-> Undefined]>>)
       ELSE Pushed(<<>>)

\* if (placeVisit) { ... } : lines 282-306.
LegacyVisit(placeVisit, index) ==
    LET loc == placeVisit.location
        lat == IF Truthy(loc.latitudeE7) THEN e7ToFloat(loc.latitudeE7)
               ELSE Or(loc.latitude, Or(loc.lat, Num(0, 0)))
        lng == IF Truthy(loc.longitudeE7) THEN e7ToFloat(loc.longitudeE7)
               ELSE Or(loc.longitude, Or(loc.lng, Num(0, 0)))
        startStr == Or(placeVisit.duration.startTimestamp, placeVisit.duration.startTime)
    IN IF Truthy(lat) /\ Truthy(lng) /\ Truthy(startStr)
       THEN LET start == NewDate(startStr)
                end == NewDate(Or(placeVisit.duration.endTimestamp, startStr))
                city == extractCity(loc.address)
            IN IF city.threw THEN Thrown
               ELSE Pushed(<<[id |-> EventId("legacy-v", index, NoIdx),
                              type |-> "VISIT",
                              title |-> Or(loc.name, Str("Visited Place")),
                              startTime |-> start,
                              endTime |-> end,
                              lat |-> lat,
                              lng |-> lng,
                              city |-> city.value,
                              placeId |-> loc.placeId,
                              distanceMeters |-> Undefined,
                              activityType |-> Undefined]>>)
       ELSE Pushed(<<>>)

\* else if (activitySegment) { ... } : lines 307-334.
LegacyActivity(activitySegment, index) ==
    LET startStr == Or(activitySegment.duration.startTimestamp,
                       activitySegment.duration.startTime)
        endStr == Or(activitySegment.duration.endTimestamp,
                     activitySegment.duration.endTime)
        type == Or(activitySegment.activityType, Str("TRAVEL"))
    IN IF Truthy(startStr)
       THEN LET start == NewDate(startStr)
                end == NewDate(Or(endStr, startStr))
                loc == IF TruthyObj(activitySegment.endLocation)
                       THEN activitySegment.endLocation
                       ELSE activitySegment.startLocation
                lat == IF Truthy(loc.latitudeE7) THEN e7ToFloat(loc.latitudeE7)
                       ELSE Or(loc.latitude, Num(0, 0))
                lng == IF Truthy(loc.longitudeE7) THEN e7ToFloat(loc.longitudeE7)
                       ELSE Or(loc.longitude, Num(0, 0))
            IN IF Truthy(lat) /\ Truthy(lng)
               THEN Pushed(<<[id |-> EventId("legacy-a", index, NoIdx),
                              type |-> "MOVE",
                              title |-> type,
                              startTime |-> start,
                              endTime |-> end,
                              lat |-> lat,
                              lng |-> lng,
                              city |-> Undefined,
                              placeId |-> Undefined,
                              distanceMeters |-> activitySegment.distance,
                              activityType |-> type]>>)
               ELSE Pushed(<<>>)
       ELSE Pushed(<<>>)

\* convertRecord with the activity test ahead of the visit test.
convertRecord_ActivityFirst(obj, index) ==
    IF obj.ty \in {"null", "undefined"} THEN Thrown
    ELSE LET startTime == Or(obj.startTime, obj.duration.startTimestamp)
             endTime == Or(obj.endTime, obj.duration.endTimestamp)
         IN IF Truthy(startTime)
            THEN LET start == NewDate(startTime)
                     end == NewDate(Or(endTime, startTime))
                 IN IF TruthyObj(obj.activity)
                    THEN SemanticActivity(obj, index, start, end)
                    ELSE IF TruthyObj(obj.visit)
                    THEN SemanticVisit(obj, index, start, end)
                    ELSE IF obj.timelinePath.ty = "array"
                    THEN PathPoints(obj.timelinePath.pts, 1, index, startTime)
                    ELSE Pushed(<<>>)
            ELSE IF TruthyObj(obj.position)
            THEN RawSignal(obj, index)
            ELSE LET placeVisit == IF TruthyObj(obj.placeVisit)
                                   THEN obj.placeVisit ELSE obj.visit
                     activitySegment == IF TruthyObj(obj.activitySegment)
                                        THEN obj.activitySegment ELSE obj.activity
                 IN IF TruthyObj(activitySegment)
                    THEN LegacyActivity(activitySegment, index)
                    ELSE IF TruthyObj(placeVisit) THEN LegacyVisit(placeVisit, index)
                    ELSE Pushed(<<>>)

\* The whole callback for the element obj at (0-based) index: lines 173-336.
\* Reading obj.startTime of a null element raises a TypeError.
convertRecord(obj, index) ==
    IF obj.ty \in {"null", "undefined"} THEN Thrown
    ELSE LET startTime == Or(obj.startTime, obj.duration.startTimestamp)
             endTime == Or(obj.endTime, obj.duration.endTimestamp)
         IN IF Truthy(startTime)
            THEN LET start == NewDate(startTime)
                     end == NewDate(Or(endTime, startTime))
                 IN IF TruthyObj(obj.visit)
                    THEN SemanticVisit(obj, index, start, end)
                    ELSE IF TruthyObj(obj.activity)
                    THEN SemanticActivity(obj, index, start, end)
                    ELSE IF obj.timelinePath.ty = "array"
                    THEN PathPoints(obj.timelinePath.pts, 1, index, startTime)
                    ELSE Pushed(<<>>)
            ELSE IF TruthyObj(obj.position)
            THEN RawSignal(obj, index)
            ELSE LET placeVisit == IF TruthyObj(obj.placeVisit)
                                   THEN obj.placeVisit ELSE obj.visit
                     activitySegment == IF TruthyObj(obj.activitySegment)
                                        THEN obj.activitySegment ELSE obj.activity
                 IN IF TruthyObj(placeVisit) THEN LegacyVisit(placeVisit, index)
                    ELSE IF TruthyObj(activitySegment)
                    THEN LegacyActivity(activitySegment, index)
                    ELSE Pushed(<<>>)

\* rawItems.forEach(...) from position i on (index = i - 1): the events
\* pushed in order, or the first TypeError.
RECURSIVE forEachRecord(_, _)
forEachRecord(rawItems, i) ==
    IF i > Len(rawItems) THEN Pushed(<<>>)
    ELSE LET here == convertRecord(rawItems[i], i - 1)
         IN IF here.threw THEN Thrown
            ELSE LET rest == forEachRecord(rawItems, i + 1)
                 IN IF rest.threw THEN Thrown
                    ELSE Pushed(here.events \o rest.events)

(***************************************************************************)
(* JSON documents.  A node is [ty, items, members]: an array holds items   *)
(* (records), an object holds members, a sequence of [key, val] in         *)
(* insertion order; ty = "null" stands for the falsy documents (null,      *)
(* false, 0, "") and ty = "number" for a truthy primitive.                 *)
(***************************************************************************)
Node(ty, items, members) == [ty |-> ty, items |-> items, members |-> members]

NullNode == Node("null", <<>>, <<>>)

UndefinedNode == Node("undefined", <<>>, <<>>)

PrimitiveNode == Node("number", <<>>, <<>>)

ArrayNode(items) == Node("array", items, <<>>)

ObjectNode(members) == Node("object", <<>>, members)

Member(key, val) == [key |-> key, val |-> val]

\* node[key]
Get(node, key) ==
    IF \E i \in 1..Len(node.members) : node.members[i].key = key
    THEN node.members[CHOOSE i \in 1..Len(node.members) : node.members[i].key = key].val
    ELSE UndefinedNode

(***************************************************************************)
(* isLocationLike and findDataArray.                                       *)
(***************************************************************************)
MarkerKeys ==
    {"lat", "latitude", "latE7", "latitudeE7", "placeVisit", "activitySegment",
     "geometry", "semanticSegments", "rawSignals", "latLng", "LatLng"}

\* The keys k with `k in obj` for a record.
ItemKeys(obj) ==
    obj.otherKeys
    \cup (IF obj.startTime.ty # "undefined" THEN {"startTime"} ELSE {})
    \cup (IF obj.endTime.ty # "undefined" THEN {"endTime"} ELSE {})
    \cup (IF obj.duration # NoDuration THEN {"duration"} ELSE {})
    \cup (IF obj.visit.ty # "undefined" THEN {"visit"} ELSE {})
    \cup (IF obj.activity.ty # "undefined" THEN {"activity"} ELSE {})
    \cup (IF obj.timelinePath.ty # "undefined" THEN {"timelinePath"} ELSE {})
    \cup (IF obj.position.ty # "undefined" THEN {"position"} ELSE {})
    \cup (IF obj.placeVisit.ty # "undefined" THEN {"placeVisit"} ELSE {})
    \cup (IF obj.activitySegment.ty # "undefined" THEN {"activitySegment"} ELSE {})

isLocationLike(obj) ==
    IF obj.ty # "object" THEN FALSE
    ELSE \E k \in MarkerKeys : k \in ItemKeys(obj)

\* node.filter(isLocationLike).length
LocationCount(items) == Cardinality({i \in 1..Len(items) : isLocationLike(items[i])})

priorityKeys == <<"semanticSegments", "rawSignals", "timelineObjects", "locations", "features">>

\* The depth bound of the fallback search.
MaxSearchDepth == 5

\* bestArray (found = FALSE for null) and maxLocationCount.
NoBest == [found |-> FALSE, items |-> <<>>, maxLocationCount |-> 0]

\* search(node, depth) and its loop `for (const key in node)` from member
\* i on, threading the two closure variables through acc.
RECURSIVE search(_, _, _), searchMembers(_, _, _, _)
\* search with the bound off by one: arrays one level deeper are scored.
search_Deeper(node, depth, acc) ==
    IF depth > MaxSearchDepth + 1 \/ node.ty \notin {"array", "object"} THEN acc
    ELSE IF node.ty = "array"
    THEN LET locationCount == LocationCount(node.items)
         IN IF locationCount > acc.maxLocationCount
            THEN [found |-> TRUE, items |-> node.items, maxLocationCount |-> locationCount]
            ELSE acc
    ELSE searchMembers(node.members, 1, depth, acc)

search(node, depth, acc) ==
    IF depth > MaxSearchDepth \/ node.ty \notin {"array", "object"} THEN acc
    ELSE IF node.ty = "array"
    THEN LET locationCount == LocationCount(node.items)
         IN IF locationCount > acc.maxLocationCount
            THEN [found |-> TRUE, items |-> node.items, maxLocationCount |-> locationCount]
            ELSE acc
    ELSE searchMembers(node.members, 1, depth, acc)

searchMembers(members, i, depth, acc) ==
    IF i > Len(members) THEN acc
    ELSE searchMembers(members, i + 1, depth, search(members[i].val, depth + 1, acc))

\* The result of findDataArray: found = FALSE is null.
NoArray == [found |-> FALSE, items |-> <<>>]

FoundArray(items) == [found |-> TRUE, items |-> items]

\* The loop over priorityKeys from position k on, then the fallback.
RECURSIVE findFrom(_, _)
\* findFrom without the length test: an empty array under a known key wins.
findFrom_AnyArray(data, k) ==
    IF k > Len(priorityKeys)
    THEN LET best == search(data, 0, NoBest)
         IN IF best.found THEN FoundArray(best.items) ELSE NoArray
    ELSE LET v == Get(data, priorityKeys[k])
         IN IF v.ty = "array"
            THEN FoundArray(v.items)
            ELSE findFrom(data, k + 1)

findFrom(data, k) ==
    IF k > Len(priorityKeys)
    THEN LET best == search(data, 0, NoBest)
         IN IF best.found THEN FoundArray(best.items) ELSE NoArray
    ELSE LET v == Get(data, priorityKeys[k])
         IN IF v.ty = "array" /\ Len(v.items) > 0
            THEN FoundArray(v.items)
            ELSE findFrom(data, k + 1)

findDataArray(data) ==
    IF data.ty \in {"null", "undefined"} THEN NoArray
    ELSE IF data.ty = "array" THEN FoundArray(data.items)
    ELSE findFrom(data, 1)

(***************************************************************************)
(* events.sort((a, b) => a.startTime.getTime() - b.startTime.getTime()).   *)
(* Array.prototype.sort is stable; a NaN from the comparator counts as 0,  *)
(* and when that makes the comparator inconsistent (an Invalid Date ties   *)
(* with two dates that differ) the order is implementation-defined: any    *)
(* permutation.                                                            *)
(***************************************************************************)
Compare(a, b) ==
    IF a.startTime.valid /\ b.startTime.valid
    THEN a.startTime.t - b.startTime.t ELSE 0

ConsistentComparator(events) ==
    \A i, j, k \in 1..Len(events) :
        (Compare(events[i], events[j]) = 0 /\ Compare(events[j], events[k]) = 0)
            => Compare(events[i], events[k]) = 0

\* e inserted after the last element that does not compare greater.
RECURSIVE Insert(_, _)
Insert(sorted, e) ==
    IF sorted = <<>> THEN <<e>>
    ELSE IF Compare(sorted[Len(sorted)], e) <= 0 THEN Append(sorted, e)
    ELSE Append(Insert(SubSeq(sorted, 1, Len(sorted) - 1), e), sorted[Len(sorted)])

RECURSIVE StableSort(_)
StableSort(events) ==
    IF events = <<>> THEN <<>>
    ELSE Insert(StableSort(SubSeq(events, 1, Len(events) - 1)), events[Len(events)])

SortOutcomes(events) ==
    IF ConsistentComparator(events) THEN {StableSort(events)}
    ELSE {[i \in 1..Len(events) |-> events[p[i]]] : p \in Permutations(1..Len(events))}

(***************************************************************************)
(* calculateStats.  A Map is the sequence of its entries [name, count] in  *)
(* insertion order; a Set is a set.                                        *)
(***************************************************************************)
\* .slice(0, 5) and totalDistanceMeters / 1000.
TopCityCount == 5

MetresPerKm == 1000

\* new Date(8640000000000000) and new Date(-8640000000000000).
LatestDate == [valid |-> TRUE, t |-> 0, limit |-> 1]

EarliestDate == [valid |-> TRUE, t |-> 0, limit |-> -1]

\* DateLess that holds of any two valid dates: the range follows the event
\* met last.
DateLess_AnyValid(a, b) == a.valid /\ b.valid

\* a < b for two Dates: their time values compared, false when one is NaN.
DateLess(a, b) ==
    /\ a.valid /\ b.valid
    /\ \/ a.limit < b.limit
       \/ a.limit = b.limit /\ a.t < b.t

\* Increment_Reset: the count set to 1 in place of (get(key) || 0) + 1.
Increment_Reset(map, key) ==
    IF \E i \in 1..Len(map) : map[i].name = key
    THEN [i \in 1..Len(map) |->
            IF map[i].name = key THEN [map[i] EXCEPT !.count = 1] ELSE map[i]]
    ELSE Append(map, [name |-> key, count |-> 1])

\* map.set(key, (map.get(key) || 0) + 1)
Increment(map, key) ==
    IF \E i \in 1..Len(map) : map[i].name = key
    THEN [i \in 1..Len(map) |->
            IF map[i].name = key THEN [map[i] EXCEPT !.count = @ + 1] ELSE map[i]]
    ELSE Append(map, [name |-> key, count |-> 1])

\* totalDistanceMeters += e.distanceMeters, under if (e.distanceMeters).
\* Distances are whole numbers of metres; adding anything else is NaN here.
AddDistance(total, d) ==
    IF ~Truthy(d) THEN total
    ELSE IF IsFiniteNumber(total) /\ IsFiniteNumber(d) /\ d.e = 0
    THEN Num(total.m + d.m, 0)
    ELSE NaN

\* RoundKm with the fraction cut off in place of Math.round.
RoundKm_Truncate(total) ==
    IF IsFiniteNumber(total) THEN Num(total.m \div MetresPerKm, 0) ELSE NaN

\* Math.round(totalDistanceMeters / 1000): floor(x + 0.5).
RoundKm(total) ==
    IF IsFiniteNumber(total)
    THEN Num((2 * total.m + MetresPerKm) \div (2 * MetresPerKm), 0)
    ELSE NaN

\* The accumulators before the loop: lines 76-83.
NewAccumulator ==
    [totalDistanceMeters |-> Num(0, 0),
     placeCounts |-> <<>>,
     visitCountsByName |-> <<>>,
     activityCounts |-> <<>>,
     uniquePlaceTitles |-> {},
     minDate |-> LatestDate,
     maxDate |-> EarliestDate]

\* The callback of events.forEach(e => ...): lines 85-114.
Accumulate(acc, e) ==
    [totalDistanceMeters |-> AddDistance(acc.totalDistanceMeters, e.distanceMeters),
     placeCounts |->
        IF e.type = "VISIT" /\ Truthy(e.city)
        THEN Increment(acc.placeCounts, e.city) ELSE acc.placeCounts,
     visitCountsByName |->
        IF e.type = "VISIT"
        THEN Increment(acc.visitCountsByName, e.title) ELSE acc.visitCountsByName,
     activityCounts |->
        IF e.type = "MOVE" /\ Truthy(e.activityType)
        THEN Increment(acc.activityCounts, e.activityType) ELSE acc.activityCounts,
     uniquePlaceTitles |->
        IF e.type = "VISIT"
        THEN acc.uniquePlaceTitles \cup {e.title} ELSE acc.uniquePlaceTitles,
     minDate |-> IF DateLess(e.startTime, acc.minDate) THEN e.startTime ELSE acc.minDate,
     maxDate |-> IF DateLess(acc.maxDate, e.endTime) THEN e.endTime ELSE acc.maxDate]

RECURSIVE forEachEvent(_, _, _)
forEachEvent(events, i, acc) ==
    IF i > Len(events) THEN acc
    ELSE CHOOSE out \in {forEachEvent(events, i + 1, next) :
                             next \in {Accumulate(acc, events[i])}} : TRUE

\* .sort((a, b) => b[1] - a[1]): stable, entry placed after the last one
\* whose count is not smaller.
RECURSIVE InsertByCount(_, _)
InsertByCount(sorted, entry) ==
    IF sorted = <<>> THEN <<entry>>
    ELSE IF sorted[Len(sorted)].count >= entry.count THEN Append(sorted, entry)
    ELSE Append(InsertByCount(SubSeq(sorted, 1, Len(sorted) - 1), entry),
                sorted[Len(sorted)])

RECURSIVE SortByCount(_)
SortByCount(entries) ==
    IF entries = <<>> THEN <<>>
    ELSE InsertByCount(SortByCount(SubSeq(entries, 1, Len(entries) - 1)),
                       entries[Len(entries)])

\* .slice(0, n)
Slice(entries, n) == SubSeq(entries, 1, IF Len(entries) < n THEN Len(entries) ELSE n)

\* TopCities without the sort.
TopCities_Unsorted(placeCounts) == Slice(placeCounts, TopCityCount)

\* Array.from(placeCounts.entries()).sort(...).slice(0, 5).map(...): 116-119.
TopCities(placeCounts) == Slice(SortByCount(placeCounts), TopCityCount)

\* ActivityBreakdown without the "Recorded Points" entry.
ActivityBreakdown_NoFallback(activityCounts, events) ==
    [i \in 1..Len(activityCounts) |->
        [name |-> activityCounts[i].name, value |-> activityCounts[i].count]]

\* Array.from(activityCounts.entries()).map(...) and the fallback: 121-127.
ActivityBreakdown(activityCounts, events) ==
    IF Len(activityCounts) = 0 /\ Len(events) > 0
    THEN <<[name |-> Str("Recorded Points"), value |-> Len(events)]>>
    ELSE [i \in 1..Len(activityCounts) |->
            [name |-> activityCounts[i].name, value |-> activityCounts[i].count]]

\* The property key a Map key becomes: ToString of the value.  The text of
\* a fractional number is not spelled out: the number's record stands for it.
PropertyKey(v) ==
    CASE v.ty = "string" -> v.s
      [] v.ty = "number" /\ v.s = "NaN" -> "NaN"
      [] v.ty = "number" /\ v.e = 0 -> ToString(v.m)
      [] v.ty = "number" -> ToString(v)
      [] v.ty = "boolean" -> IF v.m = 1 THEN "true" ELSE "false"
      [] v.ty = "object" -> "[object Object]"
      [] OTHER -> v.ty

\* Object.fromEntries(map): the properties [key, count] in the order they
\* were first set; an entry whose key is already there overwrites its value.
RECURSIVE ObjectFromEntries(_)
ObjectFromEntries(map) ==
    IF map = <<>> THEN <<>>
    ELSE LET before == ObjectFromEntries(SubSeq(map, 1, Len(map) - 1))
             last == map[Len(map)]
             key == PropertyKey(last.name)
         IN IF \E i \in 1..Len(before) : before[i].key = key
            THEN [i \in 1..Len(before) |->
                    IF before[i].key = key
                    THEN [before[i] EXCEPT !.count = last.count] ELSE before[i]]
            ELSE Append(before, [key |-> key, count |-> last.count])

\* CountVisits counting the events of every type.
CountVisits_AllEvents(events) == Len(events)

\* events.filter(e => e.type === 'VISIT').length
CountVisits(events) == Len(SelectSeq(events, LAMBDA e : e.type = "VISIT"))

\* calculateStats(events): lines 63-140.  clock holds the two readings of
\* the clock that the empty list takes, new Date() and new Date().
calculateStats(events, clock) ==
    IF Len(events) = 0
    THEN [totalDistanceKm |-> Num(0, 0),
          totalVisits |-> 0,
          uniquePlaces |-> 0,
          topCities |-> <<>>,
          activityBreakdown |-> <<>>,
          dateRange |-> [start |-> clock.start, end |-> clock.end],
          placeVisitCounts |-> <<>>]
    ELSE LET acc == forEachEvent(events, 1, NewAccumulator)
         IN [totalDistanceKm |-> RoundKm(acc.totalDistanceMeters),
             totalVisits |-> CountVisits(events),
             uniquePlaces |-> Cardinality(acc.uniquePlaceTitles),
             topCities |-> TopCities(acc.placeCounts),
             activityBreakdown |-> ActivityBreakdown(acc.activityCounts, events),
             dateRange |-> [start |-> acc.minDate, end |-> acc.maxDate],
             placeVisitCounts |-> ObjectFromEntries(acc.visitCountsByName)]

\* The readings two successive new Date() calls can give.
ClockTimes == {5, 6}

ClockReadings ==
    {[start |-> DateAt(p[1]), end |-> DateAt(p[2])] :
        p \in {q \in ClockTimes \X ClockTimes : q[1] <= q[2]}}

\* The stats member of a null result: there is none.
NoStats == calculateStats(<<>>, [start |-> InvalidDate, end |-> InvalidDate])

(***************************************************************************)
(* parseTimelineData.  An outcome is [threw, isNull, events, stats]: the   *)
(* members of the returned object, or null, or an exception.  The set is   *)
(* the outcomes a call can have (one, unless the sort order is             *)
(* implementation-defined).                                                *)
(***************************************************************************)
ReturnNull == [threw |-> FALSE, isNull |-> TRUE, events |-> <<>>, stats |-> NoStats]

Exception == [threw |-> TRUE, isNull |-> FALSE, events |-> <<>>, stats |-> NoStats]

\* const stats = calculateStats(events); return { events, stats };
ReturnEvents(events) ==
    {[threw |-> FALSE, isNull |-> FALSE, events |-> events,
      stats |-> calculateStats(events, clock)] : clock \in ClockReadings}

\* tryBody without `if (events.length === 0) return null`.
tryBody_NoEmptyCheck(jsonData) ==
    LET rawItems == findDataArray(jsonData)
    IN IF ~rawItems.found \/ Len(rawItems.items) = 0 THEN {ReturnNull}
       ELSE LET loop == forEachRecord(rawItems.items, 1)
            IN IF loop.threw THEN {Exception}
               ELSE UNION {ReturnEvents(sorted) : sorted \in SortOutcomes(loop.events)}

\* The statements inside try { ... } : lines 168-345.
tryBody(jsonData) ==
    LET rawItems == findDataArray(jsonData)
    IN IF ~rawItems.found \/ Len(rawItems.items) = 0 THEN {ReturnNull}
       ELSE LET loop == forEachRecord(rawItems.items, 1)
            IN IF loop.threw THEN {Exception}
               ELSE IF Len(loop.events) = 0 THEN {ReturnNull}
               ELSE UNION {ReturnEvents(sorted) : sorted \in SortOutcomes(loop.events)}

\* parseTimelineData without the catch: the exception reaches the caller.
parseTimelineData_NoCatch(jsonData) == tryBody(jsonData)

\* try { ... } catch (error) { console.error(...); return null; }
parseTimelineData(jsonData) ==
    {IF o.threw THEN ReturnNull ELSE o : o \in tryBody(jsonData)}

(***************************************************************************)
(* Input documents.                                                        *)
(***************************************************************************)
\* The number of distinct valid timestamps in the inputs.
TimeCount == 2

\* The largest number of records in an enumerated record array.
MaxItems == 2

\* The largest number of objects wrapped around an array below a top-level
\* key (the array then sits at depth MaxNest + 1).
MaxNest == 6

IsoStrings ==
    <<"1970-01-01T00:00:00.001Z", "1970-01-01T00:00:00.002Z",
      "1970-01-01T00:00:00.003Z", "1970-01-01T00:00:00.004Z">>

Time(i) == Str(IsoStrings[i])

Times == {Time(i) : i \in 1..TimeCount}

BadTime == Str("yesterday")

GoodLatLng == Str("34.5°, -118.25°")

BadLatLng == Str("north")

\* A semantic visit: { startTime, endTime, visit: { topCandidate: {...} } }.
VisitObject(latLng, name, address) ==
    [NoVisit EXCEPT !.ty = "object", !.latLng = latLng, !.name = name,
                    !.address = address, !.placeId = Str("ChIJ-1")]

SemanticVisitItem(start, latLng, name, address) ==
    [EmptyItem EXCEPT !.startTime = start, !.endTime = Time(TimeCount),
                      !.visit = VisitObject(latLng, name, address)]

\* A semantic activity: { startTime, activity: { end, topCandidate, ... } }.
ActivityObject(endLatLng, type) ==
    [NoActivity EXCEPT !.ty = "object", !.startLatLng = GoodLatLng,
                       !.endLatLng = endLatLng, !.type = type,
                       !.distanceMeters = Num(1500, 0)]

SemanticActivityItem(start, endLatLng, type) ==
    [EmptyItem EXCEPT !.startTime = start, !.activity = ActivityObject(endLatLng, type)]

\* A semantic path: { startTime, timelinePath: [ { point, time } ... ] }.
PathItem(start, pts) ==
    [EmptyItem EXCEPT !.startTime = start, !.timelinePath = PathArray(pts)]

\* A raw signal: { position: { LatLng, timestamp } }.
PositionObject(latLng, ts) ==
    [NoPosition EXCEPT !.ty = "object", !.LatLng = latLng, !.timestamp = ts]

RawSignalItem(latLng, ts) == [EmptyItem EXCEPT !.position = PositionObject(latLng, ts)]

\* A legacy place visit: { location: {...}, duration: { startTimestamp } }.
LocationE7(latE7, lngE7) ==
    [EmptyLocation EXCEPT !.latitudeE7 = latE7, !.longitudeE7 = lngE7]

LegacyVisitObject(loc, startStr) ==
    [NoVisit EXCEPT !.ty = "object", !.location = loc,
                    !.duration = [NoDuration EXCEPT !.startTimestamp = startStr]]

LegacyVisitItem(loc, startStr) ==
    [EmptyItem EXCEPT !.placeVisit = LegacyVisitObject(loc, startStr)]

\* A legacy activity segment: { endLocation, duration, activityType }.
LegacyActivityObject(loc, startStr) ==
    [NoActivity EXCEPT !.ty = "object", !.endLocation = loc,
                       !.duration = [NoDuration EXCEPT !.startTimestamp = startStr],
                       !.activityType = Str("WALKING"), !.distance = Num(700, 0)]

LegacyActivityItem(loc, startStr) ==
    [EmptyItem EXCEPT !.activitySegment = LegacyActivityObject(loc, startStr)]

GoodLocation == LocationE7(Num(515000000, 0), Num(-3400000, 0))

ElmStreet == Str("1 Elm St, Los Angeles, CA 90012, USA")

\* Records that convert to one event each.
GoodItems ==
    {SemanticVisitItem(t, GoodLatLng, Str("Cafe X"), ElmStreet) : t \in Times}
    \cup {SemanticActivityItem(Time(1), GoodLatLng, Str("IN_PASSENGER_VEHICLE")),
          PathItem(Time(1), <<PathPoint(GoodLatLng, Time(TimeCount))>>),
          RawSignalItem(GoodLatLng, Time(1)),
          LegacyVisitItem(GoodLocation, Time(1)),
          LegacyActivityItem(GoodLocation, Time(TimeCount))}

\* Values that match no record shape or fail its validity checks: a null
\* element, a primitive, an activity whose type is not a string, a
\* timelinePath with a null entry, a bad timestamp, a bad coordinate string.
BadItems ==
    {NullItem, PrimitiveItem,
     SemanticActivityItem(Time(1), GoodLatLng, Num(7, 0)),
     PathItem(Time(1), <<NullPathPoint>>),
     SemanticVisitItem(BadTime, GoodLatLng, Undefined, Undefined),
     SemanticVisitItem(Time(1), BadLatLng, Undefined, Undefined)}

\* A legacy visit whose start timestamp does not parse.
OddItems == {LegacyVisitItem(GoodLocation, BadTime)}

CoreItems == GoodItems \cup BadItems \cup OddItems

RECURSIVE SeqsUpTo(_, _)
SeqsUpTo(S, n) ==
    IF n = 0 THEN {<<>>}
    ELSE LET shorter == SeqsUpTo(S, n - 1)
         IN shorter \cup {Append(q, x) : q \in {r \in shorter : Len(r) = n - 1}, x \in S}

\* Arrays of up to MaxItems records.
CoreArrays == SeqsUpTo(CoreItems, MaxItems)

\* Legacy records over the JSON types a coordinate field can hold.
E7Values ==
    {Undefined, Num(515000000, 0), Num(0, 0), Str("515000000"), Str("0"), Str("abc"),
     JsTrue, JsObject}

PlainValues == {Undefined, Num(515, 1), Num(0, 0), Str("north")}

WideLocations ==
    {[EmptyLocation EXCEPT !.latitudeE7 = latE7, !.latitude = latitude, !.lat = lat,
                           !.longitudeE7 = lngE7, !.longitude = longitude,
                           !.address = address] :
        latE7 \in E7Values, latitude \in PlainValues, lat \in {Undefined, Num(3, 0)},
        lngE7 \in {Undefined, Num(-3400000, 0)}, longitude \in {Undefined, Str("east")},
        address \in {Undefined, Num(5, 0)}}

WideLegacyItems ==
    {LegacyVisitItem(loc, startStr) :
        loc \in WideLocations, startStr \in {Undefined, Time(1), BadTime}}
    \cup {LegacyActivityItem(loc, startStr) :
        loc \in WideLocations, startStr \in {Undefined, Time(1), BadTime}}

\* Records that combine the members the classification reads.
WideVisits ==
    {NoVisit, [NoVisit EXCEPT !.ty = "null"], [NoVisit EXCEPT !.ty = "boolean"],
     VisitObject(GoodLatLng, Str("Cafe X"), ElmStreet),
     VisitObject(BadLatLng, Str("Cafe X"), ElmStreet),
     VisitObject(GoodLatLng, Undefined, Num(5, 0)),
     VisitObject(Str("0°, 0°"), Undefined, Str("Springfield, IL")),
     LegacyVisitObject(GoodLocation, Time(1))}

WideActivities ==
    {NoActivity,
     ActivityObject(GoodLatLng, Str("WALKING")),
     ActivityObject(GoodLatLng, Num(7, 0)),
     ActivityObject(GoodLatLng, Undefined),
     LegacyActivityObject(GoodLocation, Time(1))}

WidePaths ==
    {NoPath,
     PathArray(<<PathPoint(GoodLatLng, Time(1))>>),
     PathArray(<<PathPoint(GoodLatLng, Undefined), NullPathPoint>>),
     [ty |-> "object", pts |-> <<>>]}

WidePositions ==
    {NoPosition,
     PositionObject(GoodLatLng, Time(1)),
     PositionObject(BadLatLng, Time(1)),
     PositionObject(GoodLatLng, BadTime)}

WideMixedItems ==
    {[EmptyItem EXCEPT !.startTime = start,
                       !.duration = [NoDuration EXCEPT !.startTimestamp = durStart],
                       !.visit = visit, !.activity = activity,
                       !.timelinePath = path, !.position = position,
                       !.placeVisit = placeVisit] :
        start \in {Undefined, Time(1), BadTime}, durStart \in {Undefined, Time(1)},
        visit \in WideVisits, activity \in WideActivities, path \in WidePaths,
        position \in WidePositions,
        placeVisit \in {NoVisit, LegacyVisitObject(GoodLocation, Time(1))}}

WideItems == WideLegacyItems \cup WideMixedItems

\* A legacy visit that converts to one VISIT titled name.
NamedItem(name) ==
    LegacyVisitItem([GoodLocation EXCEPT !.name = Str(name)], Time(1))

\* Objects holding the priority keys, each absent, not an array, an empty
\* array or a one-record array, written in the reverse of the priority
\* order, after a key that findDataArray does not know.
KeyValues(key) ==
    {UndefinedNode, PrimitiveNode, ArrayNode(<<>>), ArrayNode(<<NamedItem(key)>>)}

Present(members) == SelectSeq(members, LAMBDA mem : mem.val.ty # "undefined")

PriorityDocuments ==
    {ObjectNode(Present(<<Member("archive", other),
                          Member("features", v5), Member("locations", v4),
                          Member("timelineObjects", v3), Member("rawSignals", v2),
                          Member("semanticSegments", v1)>>)) :
        other \in {UndefinedNode, ArrayNode(<<NamedItem("archive")>>)},
        v1 \in KeyValues("semanticSegments"), v2 \in KeyValues("rawSignals"),
        v3 \in KeyValues("timelineObjects"), v4 \in KeyValues("locations"),
        v5 \in KeyValues("features")}

\* node wrapped in n objects: { inner: { inner: ... node } }.
RECURSIVE Wrap(_, _)
Wrap(n, node) == IF n = 0 THEN node ELSE ObjectNode(<<Member("inner", Wrap(n - 1, node))>>)

\* An array of c location-bearing records followed by one that is not.
MarkedArray(c, name) ==
    ArrayNode([i \in 1..c |-> NamedItem(name)]
              \o <<SemanticVisitItem(Time(1), GoodLatLng, Str(name), Undefined)>>)

\* Objects with two arrays under unknown keys, each at its own depth and
\* with its own number of location-bearing records.
NestedDocuments ==
    {ObjectNode(<<Member("left", Wrap(d1, MarkedArray(c1, "left"))),
                  Member("right", Wrap(d2, MarkedArray(c2, "right")))>>) :
        d1 \in 0..MaxNest, d2 \in 0..MaxNest, c1 \in 0..2, c2 \in 0..2}

\* The largest number of entries of a timelinePath, and of records in an
\* array of raw signals (its last index is then RawStep).
MaxPathLen == 11

MaxRawLen == 51

\* A path of n entries with good coordinates; every other entry has a time
\* of its own, the rest take the record's start time.
GoodPath(n) ==
    [i \in 1..n |-> PathPoint(GoodLatLng, IF i % 2 = 1 THEN Time(TimeCount) ELSE Undefined)]

\* GoodPath(n) with the coordinates of entry k unparseable.
FlawedPath(n, k) == [GoodPath(n) EXCEPT ![k] = PathPoint(BadLatLng, Time(1))]

LongPaths ==
    {GoodPath(n) : n \in 0..MaxPathLen}
    \cup {FlawedPath(MaxPathLen, k) : k \in {1, PathStep + 1}}

\* Arrays with a path record at index 0, at index 1 behind a visit, and
\* with two path records.
PathDocuments ==
    {ArrayNode(<<PathItem(Time(1), pts)>>) : pts \in LongPaths}
    \cup {ArrayNode(<<SemanticVisitItem(Time(1), GoodLatLng, Str("Cafe X"), ElmStreet),
                      PathItem(start, pts)>>) :
            start \in {Time(1), BadTime}, pts \in LongPaths}
    \cup {ArrayNode(<<PathItem(Time(1), GoodPath(PathStep + 1)), PathItem(Time(1), pts)>>) :
            pts \in LongPaths}

\* Arrays of n raw signals (the last index is RawStep - 1 or more), all
\* good, or with the last one unparseable.
RawDocuments ==
    {ArrayNode([i \in 1..n |-> RawSignalItem(GoodLatLng, Time(1))]) : n \in RawStep..MaxRawLen}
    \cup {ArrayNode([i \in 1..n |->
                      RawSignalItem(IF i = n THEN BadLatLng ELSE GoodLatLng,
                                    Time(TimeCount))]) : n \in RawStep..MaxRawLen}

\* The addresses of a place: the formatted addresses of AddressParts, the
\* empty string, and none.
Addresses == {Str(a) : a \in DOMAIN AddressParts} \cup {Str(""), Undefined, JsNull}

\* One semantic visit to a place at each address.
AddressDocuments ==
    {ArrayNode(<<SemanticVisitItem(Time(1), GoodLatLng, Str("Cafe X"), address)>>) :
        address \in Addresses}

Documents ==
    {NullNode, PrimitiveNode}
    \cup {ArrayNode(items) : items \in CoreArrays}
    \cup {ArrayNode(<<item>>) : item \in WideItems}
    \cup PriorityDocuments
    \cup NestedDocuments
    \cup PathDocuments
    \cup RawDocuments
    \cup AddressDocuments

(***************************************************************************)
(* Event lists handed to calculateStats (types.ts ProcessedEvent).         *)
(***************************************************************************)
\* The largest number of events in an enumerated list, and the largest
\* number of visits to one city in a list of city visits.
MaxEvents == 3

MaxCityVisits == 2

Event(n, type, title, start, end, city, distanceMeters, activityType) ==
    [id |-> EventId("e", n, NoIdx),
     type |-> type,
     title |-> title,
     startTime |-> DateAt(start),
     endTime |-> DateAt(end),
     lat |-> Num(345, 1),
     lng |-> Num(-11825, 2),
     city |-> city,
     placeId |-> Undefined,
     distanceMeters |-> distanceMeters,
     activityType |-> activityType]

\* Visits that share a title or a city, one that ends before it starts;
\* moves with and without a distance and an activity type; a point.
EventPool ==
    {Event(1, "VISIT", Str("Cafe X"), 1, 2, Str("Los Angeles"), Undefined, Undefined),
     Event(2, "VISIT", Str("Cafe X"), 2, 2, Str("Springfield"), Undefined, Undefined),
     Event(3, "VISIT", Str("Home"), 2, 1, Undefined, Undefined, Undefined),
     Event(4, "MOVE", Str("WALKING"), 1, 3, Undefined, Num(1500, 0), Str("WALKING")),
     Event(5, "MOVE", Str("CYCLING"), 2, 3, Undefined, Num(499, 0), Str("CYCLING")),
     Event(6, "MOVE", Str("WALKING"), 3, 4, Undefined, Undefined, Str("WALKING")),
     Event(7, "MOVE", Str("Trip"), 3, 3, Undefined, Num(700, 0), Undefined),
     Event(8, "POINT", Str("Path Point"), 4, 4, Undefined, Undefined, Undefined)}

\* Visits to six cities.
CityNames ==
    <<"Los Angeles", "Springfield", "Portland", "Austin", "Denver", "Boston">>

CityOrders ==
    {[k \in 1..Len(CityNames) |-> k], [k \in 1..Len(CityNames) |-> Len(CityNames) + 1 - k]}

CityVisit(k) ==
    Event(k, "VISIT", Str("Town Hall"), 1, 2, Str(CityNames[k]), Undefined, Undefined)

\* One visit to each city that is visited at least r times, in the order.
RECURSIVE CityRound(_, _, _, _)
CityRound(counts, order, r, k) ==
    IF k > Len(order) THEN <<>>
    ELSE (IF counts[order[k]] >= r THEN <<CityVisit(order[k])>> ELSE <<>>)
         \o CityRound(counts, order, r, k + 1)

RECURSIVE CityRounds(_, _, _)
CityRounds(counts, order, r) ==
    IF r > MaxCityVisits THEN <<>>
    ELSE CityRound(counts, order, r, 1) \o CityRounds(counts, order, r + 1)

CityLists ==
    {CityRounds(counts, order, 1) :
        counts \in [1..Len(CityNames) -> 0..MaxCityVisits], order \in CityOrders}

EventLists == SeqsUpTo(EventPool, MaxEvents) \cup CityLists

(***************************************************************************)
(* The App component (components/App.tsx): the loaded data, the filters,   *)
(* the events and stats shown, and the enrichment of unnamed visits from   *)
(* place lookups.  Dates of the filters are the day strings of             *)
(* toISOString().split('T')[0], kept as the number of the day since the    *)
(* epoch; the browser's time zone is UTC.                                  *)
(***************************************************************************)
\* s.toLowerCase()
LowerCase ==
    ("Visited Place" :> "visited place") @@
    ("Unknown Location" :> "unknown location") @@
    ("Blue Bottle" :> "blue bottle") @@
    ("City Park" :> "city park") @@
    ("WALKING" :> "walking") @@
    ("Park" :> "park") @@
    ("Los Angeles" :> "los angeles") @@
    ("Visit duration: 0m" :> "visit duration: 0m") @@
    ("2 km journey" :> "2 km journey") @@
    ("1 Elm St, Los Angeles, CA 90012, USA" :> "1 elm st, los angeles, ca 90012, usa")

\* text.includes(term) for lowercased text and term.
Includes(text, term) ==
    \/ term = ""
    \/ text = term
    \/ <<text, term>> \in {<<"city park", "park">>,
                           <<"1 elm st, los angeles, ca 90012, usa", "los angeles">>}

\* `Visit duration: ${Math.round((end - start) / 60000)}m` by minutes, and
\* `${Math.round((distanceMeters || 0) / 1000)} km journey` by kilometres.
DurationText == (0 :> "Visit duration: 0m")

JourneyText == (2 :> "2 km journey")

MsPerMinute == 60 * 1000

MsPerDay == 24 * 60 * MsPerMinute

\* The subtitle parseTimelineData gives a visit or a move.
subtitleOf(e) ==
    IF e.type = "VISIT"
    THEN Str(DurationText[(2 * (e.endTime.t - e.startTime.t) + MsPerMinute)
                              \div (2 * MsPerMinute)])
    ELSE Str(JourneyText[RoundKm(Or(e.distanceMeters, Num(0, 0))).m])

\* An event as the App holds it: with its subtitle.
stored(e) == e @@ [subtitle |-> subtitleOf(e)]

\* The day strings: '' is NoDay.
NoDay == 0 - 1

\* date.toISOString().split('T')[0]
DayOf(date) == date.t \div MsPerDay

\* new Date(day), and new Date(day) after setHours(23, 59, 59, 999).
DayStart(day) == DateAt(day * MsPerDay)

DayEnd(day) == DateAt(day * MsPerDay + MsPerDay - 1)

\* a >= b and a <= b for two Dates.
DateGeq(a, b) == a.valid /\ b.valid /\ ~DateLess(a, b)

\* data === null, and { events, stats }.
NoData == [isNull |-> TRUE, events |-> <<>>, stats |-> NoStats]

Data(events, stats) == [isNull |-> FALSE, events |-> events, stats |-> stats]

\* placeFilter === null, and { name, id }.
NoPlaceFilter == [isNull |-> TRUE, name |-> "", id |-> Undefined]

PlaceFilter(name, id) == [isNull |-> FALSE, name |-> name, id |-> id]

\* The callback of result.filter under if (placeFilter): lines 212-220.
MatchesPlace(e, filter) ==
    \/ Truthy(filter.id) /\ Truthy(e.placeId) /\ e.placeId = filter.id
    \/ Includes(LowerCase[e.title.s], LowerCase[filter.name])
    \/ Includes(LowerCase[e.subtitle.s], LowerCase[filter.name])

\* The useMemo of filteredEvents: lines 205-237.
filteredEvents(d, from, to, filter, allTime) ==
    IF d.isNull THEN <<>>
    ELSE LET placed == IF filter.isNull THEN d.events
                       ELSE SelectSeq(d.events, LAMBDA e : MatchesPlace(e, filter))
             shouldIgnoreDates == ~filter.isNull /\ allTime
         IN IF ~shouldIgnoreDates /\ from # NoDay /\ to # NoDay
            THEN SelectSeq(placed, LAMBDA e :
                     /\ DateGeq(e.startTime, DayStart(from))
                     /\ DateGeq(DayEnd(to), e.startTime))
            ELSE placed

\* What is shown: filteredEvents and filteredStats (null without data).
NoView == [isNull |-> TRUE, events |-> <<>>, stats |-> NoStats]

\* Views with the stats of all the events of data.
Views_AllEvents(d, from, to, filter, allTime) ==
    IF d.isNull THEN {NoView}
    ELSE {[isNull |-> FALSE, events |-> filteredEvents(d, from, to, filter, allTime),
           stats |-> d.stats]}

\* The useMemo of filteredStats: lines 239-242, on the filtered events.
Views(d, from, to, filter, allTime) ==
    IF d.isNull THEN {NoView}
    ELSE LET shown == filteredEvents(d, from, to, filter, allTime)
         IN {[isNull |-> FALSE, events |-> list, stats |-> calculateStats(list, clock)] :
                clock \in ClockReadings, list \in {shown}}

\* The number of place ids one run looks up.
EnrichBatch == 50

DaysBack == 7

\* The start and end day handleFileLoaded sets: the last day of the data
\* and the day 7 days before it, or the first day if that is later.
DefaultDays(stats) ==
    LET maxDate == stats.dateRange.end
        minDate == stats.dateRange.start
        defaultStart == DateAt(maxDate.t - DaysBack * MsPerDay)
        finalStart == IF DateLess(defaultStart, minDate) THEN minDate ELSE defaultStart
    IN [start |-> DayOf(finalStart), end |-> DayOf(maxDate)]

\* Whether enrichData takes the event for a lookup: lines 136-140.
IsUnknownPlace(e, startFilter, endFilter, failed) ==
    /\ ~DateLess(e.startTime, startFilter)
    /\ ~DateLess(endFilter, e.startTime)
    /\ e.type = "VISIT"
    /\ Truthy(e.placeId)
    /\ e.title \in {Str("Visited Place"), Str("Unknown Location")}
    /\ e.placeId \notin failed

\* The keys of a Map filled in list order: each id once, in the order met.
RECURSIVE UniqueIds(_)
UniqueIds(events) ==
    IF events = <<>> THEN <<>>
    ELSE LET before == UniqueIds(SubSeq(events, 1, Len(events) - 1))
             id == events[Len(events)].placeId
         IN IF \E k \in 1..Len(before) : before[k] = id THEN before
            ELSE Append(before, id)

\* limitedIds without the test of failedEnrichmentIds.
limitedIds_RetryFailed(events, from, to, failed) ==
    LET startFilter == IF from # NoDay THEN DayStart(from) ELSE DateAt(0)
        endFilter == IF to # NoDay THEN DayEnd(to) ELSE LatestDate
    IN Slice(UniqueIds(SelectSeq(events,
                LAMBDA e : IsUnknownPlace(e, startFilter, endFilter, {}))), EnrichBatch)

\* limitedIds: lines 118-147.
limitedIds(events, from, to, failed) ==
    LET startFilter == IF from # NoDay THEN DayStart(from) ELSE DateAt(0)
        endFilter == IF to # NoDay THEN DayEnd(to) ELSE LatestDate
    IN Slice(UniqueIds(SelectSeq(events,
                LAMBDA e : IsUnknownPlace(e, startFilter, endFilter, failed))), EnrichBatch)

\* What place.fetchFields gives: the place, or an error with its message.
Resolved(displayName, formattedAddress) ==
    [rejected |-> FALSE, message |-> "",
     displayName |-> displayName, formattedAddress |-> formattedAddress]

Rejected(message) ==
    [rejected |-> TRUE, message |-> message,
     displayName |-> Undefined, formattedAddress |-> Undefined]

\* msg.includes('NOT_FOUND') || msg.includes('no longer valid')
IsGone(message) ==
    message \in {"Place NOT_FOUND", "The place ID is no longer valid"}

\* enrichOne that replaces every visit, whatever its place id.
enrichOne_AnyPlace(events, placeId, place) ==
    [i \in 1..Len(events) |->
        IF events[i].type = "VISIT"
        THEN [events[i] EXCEPT
                !.title = place.displayName,
                !.subtitle = Or(place.formattedAddress, events[i].subtitle),
                !.city = Or(extractCity(place.formattedAddress).value, events[i].city)]
        ELSE events[i]]

\* The loop over newEvents for one place with a name: lines 167-177.
enrichOne(events, placeId, place) ==
    [i \in 1..Len(events) |->
        IF events[i].placeId = placeId
        THEN [events[i] EXCEPT
                !.title = place.displayName,
                !.subtitle = Or(place.formattedAddress, events[i].subtitle),
                !.city = Or(extractCity(place.formattedAddress).value, events[i].city)]
        ELSE events[i]]

\* enrichData without the test of isEnriching.
canEnrich_NoBusyTest(d, maps, busy) == ~d.isNull /\ maps

\* The negation of the guard of enrichData, line 116.  mapsLoaded stands
\* for window.google?.maps && googleMapsApiKey.
canEnrich(d, maps, busy) ==
    ~d.isNull /\ maps /\ ~busy

\* The timeline files a user uploads.  A visit without a name at a place.
PlaceVisitItem(start, placeId) ==
    [EmptyItem EXCEPT
        !.startTime = Str(start),
        !.visit = [VisitObject(GoodLatLng, Undefined, Undefined) EXCEPT
                      !.placeId = Str(placeId)]]

\* File A: visits to two places, the first place eight days before and
\* again after the second.  File B: a visit to the first place and a walk.
\* And a file with no location history in it.
FileA ==
    ArrayNode(<<PlaceVisitItem("1970-01-01T00:00:00.001Z", "ChIJ-1"),
                PlaceVisitItem("1970-01-09T00:00:00.000Z", "ChIJ-2"),
                PlaceVisitItem("1970-01-09T00:00:00.001Z", "ChIJ-1")>>)

FileB ==
    ArrayNode(<<PlaceVisitItem("1970-01-09T00:00:00.000Z", "ChIJ-1"),
                SemanticActivityItem(Str("1970-01-09T00:00:00.001Z"), GoodLatLng,
                                     Str("WALKING"))>>)

Files == {FileA, FileB, PrimitiveNode}

\* What a lookup of a place can give.
PlaceOutcomes(placeId) ==
    {IF placeId = Str("ChIJ-1") THEN Resolved(Str("Blue Bottle"), ElmStreet)
                                ELSE Resolved(Str("City Park"), Undefined),
     Resolved(Undefined, Undefined),
     Rejected("Place NOT_FOUND"),
     Rejected("The place ID is no longer valid"),
     Rejected("Network error")}

\* The filters a user sets.
DateChoices == {<<0, 8>>, <<8, 8>>}

SearchTexts == {"", "Los Angeles"}

\* The user messages of one chat history.
MaxMessages == 2

\* The calls awaited at one time.
MaxCalls == 2

\* No pending follow-up query: useState(null).
NoQuery == 0

\* The ChatInterface as mounted: isLoading, pendingFollowUpQuery (the user
\* message to ask again, by its number) and the ref isFetchingFollowUp.
NewChat ==
    [isLoading |-> FALSE, pendingFollowUpQuery |-> NoQuery,
     isFetchingFollowUp |-> FALSE]

\* A call that has not settled: the handler awaiting it, its query, its
\* events and disableTools arguments, and whether the component that made
\* it has been unmounted since.
Call(handler, query, events, disableTools) ==
    [handler |-> handler, query |-> query, events |-> events,
     disableTools |-> disableTools, orphan |-> FALSE]

\* No filterUpdate and no placeFilterUpdate in a reply.
NoDates == <<NoDay, NoDay>>

NoPlaceQuery == [isNull |-> TRUE, query |-> "", allTime |-> FALSE]

\* What chatWithTimeline gives: a reply with its text and the arguments of
\* the function calls in it, or an exception (getAiClient, line 107).
Reply(filterUpdate, placeFilterUpdate) ==
    [rejected |-> FALSE, filterUpdate |-> filterUpdate,
     placeFilterUpdate |-> placeFilterUpdate]

ChatError ==
    [rejected |-> TRUE, filterUpdate |-> NoDates, placeFilterUpdate |-> NoPlaceQuery]

ParkAllTime == [isNull |-> FALSE, query |-> "Park", allTime |-> TRUE]

Replies ==
    {Reply(NoDates, NoPlaceQuery), Reply(<<8, 8>>, NoPlaceQuery),
     Reply(NoDates, ParkAllTime), Reply(<<0, 8>>, ParkAllTime), ChatError}

\* The texts of the input box.
InputTexts == {"", "  ", "Show me last week"}

\* input.trim()
Trim(text) == IF text = "  " THEN "" ELSE text

\* A run of enrichData: what its closure holds (the events and the filter
\* days of the render it was started from), what it awaits, the ids still
\* to look up, newEvents and hasUpdates.
Run(events, from, to) ==
    [awaits |-> "importLibrary", events |-> events,
     startDate |-> from, endDate |-> to,
     pending |-> <<>>, newEvents |-> <<>>, hasUpdates |-> FALSE]

(***************************************************************************)
(* The state: the document handed to parseTimelineData, the array it       *)
(* located, its outcome; once a record of an array document has been       *)
(* replaced and the document parsed again, the earlier outcome and the     *)
(* index of the replaced record; the event list handed to calculateStats   *)
(* on its own, with what it returned, the list and the result of the call  *)
(* before, and the time of the clock.                                      *)
(***************************************************************************)
VARIABLES document, phase, rawItems, result, prevResult, replaced,
          eventList, statsOut, prevList, prevStats, now

\* The state of the App component: its data, the events of the latest
\* upload, the file being processed, the enrichment runs in progress, the
\* place ids that failed for good (the ref, and those found gone since the
\* latest file was loaded), the filters and what is shown.
VARIABLES data, upload, isProcessing, loading, mapsLoaded, isEnriching, runs,
          failedEnrichmentIds, notFound, startDate, endDate, placeFilter,
          searchAllTime, view

\* The tab shown, the state of the ChatInterface (as mounted afresh while
\* the analysis tab is not shown), the calls of chatWithTimeline and
\* generateTimelineInsights that have not settled, and the history of the
\* chat: the number of user messages sent, those whose reply carried a
\* filter tool call, and the follow-up requests issued for each.
VARIABLES activeTab, chat, calls, asked, toolReplies, followUps

parserVars == <<document, rawItems, result, prevResult, replaced>>

statsVars == <<eventList, statsOut, prevList, prevStats, now>>

filterVars == <<startDate, endDate, placeFilter, searchAllTime>>

chatVars == <<activeTab, chat, calls, asked, toolReplies, followUps>>

appVars ==
    <<data, upload, isProcessing, loading, mapsLoaded, isEnriching, runs,
      failedEnrichmentIds, notFound, filterVars, view, chatVars>>

vars == <<phase, parserVars, statsVars, appVars>>

\* The time at which a run starts.
ClockStart == CHOOSE t \in ClockTimes : \A u \in ClockTimes : t <= u

ParserIdle ==
    /\ document = NullNode
    /\ rawItems = NoArray
    /\ result = ReturnNull
    /\ prevResult = ReturnNull
    /\ replaced = NoIdx

StatsIdle ==
    /\ eventList = <<>>
    /\ statsOut = NoStats
    /\ prevList = <<>>
    /\ prevStats = NoStats
    /\ now = ClockStart

\* The dashboard tab, no chat yet.
ChatIdle ==
    /\ activeTab = "dashboard"
    /\ chat = NewChat
    /\ calls = <<>>
    /\ asked = 0
    /\ toolReplies = {}
    /\ followUps = [m \in 1..MaxMessages |-> 0]

\* The App as mounted: the useState and useRef initial values.
AppIdle ==
    /\ ChatIdle
    /\ data = NoData
    /\ upload = <<>>
    /\ isProcessing = FALSE
    /\ loading = NullNode
    /\ mapsLoaded = FALSE
    /\ isEnriching = FALSE
    /\ runs = <<>>
    /\ failedEnrichmentIds = {}
    /\ notFound = {}
    /\ startDate = NoDay
    /\ endDate = NoDay
    /\ placeFilter = NoPlaceFilter
    /\ searchAllTime = FALSE
    /\ view = NoView

Init ==
    /\ document \in Documents
    /\ phase = "loaded"
    /\ rawItems = NoArray
    /\ result = ReturnNull
    /\ prevResult = ReturnNull
    /\ replaced = NoIdx
    /\ StatsIdle
    /\ AppIdle

\* parseTimelineData(document).
Parse ==
    /\ phase = "loaded"
    /\ phase' = "parsed"
    /\ rawItems' = findDataArray(document)
    /\ result' \in parseTimelineData(document)
    /\ UNCHANGED <<document, prevResult, replaced, statsVars, appVars>>

\* The same array with the record at index i - 1 replaced by bad, parsed;
\* for arrays that hold other records besides the replaced one.
ReplaceRecord(i, bad) ==
    /\ phase = "parsed"
    /\ document.ty = "array"
    /\ Len(document.items) > 1
    /\ i \in 1..Len(document.items)
    /\ document.items[i] # bad
    /\ document' = ArrayNode([document.items EXCEPT ![i] = bad])
    /\ phase' = "reparsed"
    /\ rawItems' = findDataArray(document')
    /\ result' \in parseTimelineData(document')
    /\ prevResult' = result
    /\ replaced' = i - 1
    /\ UNCHANGED <<statsVars, appVars>>

Next ==
    \/ Parse
    \/ \E i \in 1..MaxItems, bad \in BadItems : ReplaceRecord(i, bad)

Spec == Init /\ [][Next]_vars

(***************************************************************************)
(* calculateStats called on an event list of its own, and called again on  *)
(* the list put in another order by its caller.  now is the latest reading *)
(* of the clock.                                                           *)
(***************************************************************************)
\* The readings of two successive new Date() calls made at time t or later.
ReadingsFrom(t) == {c \in ClockReadings : c.start.t >= t}

\* events with a sort applied to it in place.
eventsAfter_Sorted(events) == StableSort(events)

\* The array behind the argument once calculateStats has returned: the
\* body reads events through forEach, filter and length and never writes
\* to it or to an event.
eventsAfter(events) == events

\* The orders a caller gives a list: the list itself, its first two
\* events exchanged, the list turned by one place, and the list reversed.
\* Exchanges and turns, repeated, reach every order.
Reorderings(list) ==
    LET n == Len(list)
    IN {list,
        [k \in 1..n |-> IF k = 1 /\ n > 1 THEN list[2] ELSE IF k = 2 THEN list[1] ELSE list[k]],
        [k \in 1..n |-> list[(k % n) + 1]],
        [k \in 1..n |-> list[n + 1 - k]]}

StatsInit ==
    /\ eventList \in EventLists
    /\ statsOut = NoStats
    /\ prevList = <<>>
    /\ prevStats = NoStats
    /\ now = ClockStart
    /\ phase = "given"
    /\ ParserIdle
    /\ AppIdle

\* calculateStats(eventList).
Aggregate ==
    /\ phase \in {"given", "reordered"}
    /\ phase' = (IF phase = "given" THEN "aggregated" ELSE "reaggregated")
    /\ \E clock \in ReadingsFrom(now) :
          /\ statsOut' = calculateStats(eventList, clock)
          /\ now' = (IF Len(eventList) = 0 THEN clock.end.t ELSE now)
    /\ eventList' = eventsAfter(eventList)
    /\ UNCHANGED <<parserVars, appVars, prevList, prevStats>>

\* The caller keeps the result and puts the list in the order given.
Reorder(list) ==
    /\ phase = "aggregated"
    /\ phase' = "reordered"
    /\ list \in Reorderings(eventList)
    /\ prevList' = eventList
    /\ prevStats' = statsOut
    /\ eventList' = list
    /\ UNCHANGED <<parserVars, appVars, statsOut, now>>

StatsNext ==
    \/ Aggregate
    \/ \E list \in Reorderings(eventList) : Reorder(list)

StatsSpec == StatsInit /\ [][StatsNext]_vars

(***************************************************************************)
(* The App component.  A step is one event handler, timer callback or      *)
(* continuation of an await run to its next await or its end, with the     *)
(* render that follows it; a handler sees the state the handlers before it *)
(* have set.                                                               *)
(***************************************************************************)
AppInit ==
    /\ phase = "mounted"
    /\ ParserIdle
    /\ StatsIdle
    /\ AppIdle

\* The App leaves the rest of the state alone.
AppFrame == UNCHANGED <<phase, parserVars, statsVars>>

\* The chat is shown on the analysis tab of loaded data: lines 302, 581-606.
ChatMounted == ~data.isNull /\ activeTab = "analysis"

\* A step that leaves the tab and the chat as they are.
ChatFrame == UNCHANGED chatVars

\* The ChatInterface is unmounted, if it was mounted: its state is gone (a
\* later one starts from its initial state), the cleanup of its effect
\* clears the timer of a pending follow-up (line 79), and the calls it
\* awaits go on without it.
Unmount ==
    /\ chat' = NewChat
    /\ calls' = [i \in 1..Len(calls) |-> [calls[i] EXCEPT !.orphan = TRUE]]
    /\ UNCHANGED <<asked, toolReplies, followUps>>

\* The render after a step: filteredEvents and filteredStats.
Render == view' \in Views(data', startDate', endDate', placeFilter', searchAllTime')

\* The Google Maps script has loaded for the key entered: lines 46-63.
MapsScriptLoaded ==
    /\ AppFrame
    /\ ChatFrame
    /\ ~mapsLoaded
    /\ mapsLoaded' = TRUE
    /\ UNCHANGED <<data, upload, isProcessing, loading, isEnriching, runs,
                   failedEnrichmentIds, notFound, filterVars, view>>

\* handleFileLoaded(jsonData) up to its setTimeout, from the upload form,
\* which is shown while there is no data: lines 81-84.
handleFileLoaded(jsonData) ==
    /\ AppFrame
    /\ ChatFrame
    /\ data.isNull
    /\ ~isProcessing
    /\ isProcessing' = TRUE
    /\ failedEnrichmentIds' = {}
    /\ notFound' = {}
    /\ loading' = jsonData
    /\ UNCHANGED <<data, upload, mapsLoaded, isEnriching, runs, filterVars, view>>

\* The callback of the setTimeout of handleFileLoaded: lines 85-111.
LoadTimeout ==
    /\ AppFrame
    /\ ChatFrame
    /\ isProcessing
    /\ \E parsed \in parseTimelineData(loading) :
          IF parsed.isNull
          THEN UNCHANGED <<data, upload, startDate, endDate>>
          ELSE LET events == [i \in 1..Len(parsed.events) |-> stored(parsed.events[i])]
                   days == DefaultDays(parsed.stats)
               IN /\ data' = Data(events, parsed.stats)
                  /\ upload' = events
                  /\ startDate' = days.start
                  /\ endDate' = days.end
    /\ isProcessing' = FALSE
    /\ loading' = NullNode
    /\ UNCHANGED <<mapsLoaded, isEnriching, runs, failedEnrichmentIds, notFound,
                   placeFilter, searchAllTime>>
    /\ Render

\* The "New Upload" button: setData(null), lines 392 and 535.  The upload
\* form replaces the tabs (lines 302-320), and the chat with them.
Discard ==
    /\ AppFrame
    /\ Unmount
    /\ UNCHANGED activeTab
    /\ ~data.isNull
    /\ data' = NoData
    /\ UNCHANGED <<upload, isProcessing, loading, mapsLoaded, isEnriching, runs,
                   failedEnrichmentIds, notFound, filterVars>>
    /\ Render

\* handleDateUpdate(start, end): lines 255-258.
handleDateUpdate(start, end) ==
    /\ AppFrame
    /\ ChatFrame
    /\ ~data.isNull
    /\ startDate' = start
    /\ endDate' = end
    /\ UNCHANGED <<data, upload, isProcessing, loading, mapsLoaded, isEnriching, runs,
                   failedEnrichmentIds, notFound, placeFilter, searchAllTime>>
    /\ Render

\* handlePlaceFilterUpdate(query, allTime): lines 260-264.
handlePlaceFilterUpdate(query, allTime) ==
    /\ AppFrame
    /\ ChatFrame
    /\ ~data.isNull
    /\ placeFilter' = PlaceFilter(query, Undefined)
    /\ searchAllTime' = allTime
    /\ UNCHANGED <<data, upload, isProcessing, loading, mapsLoaded, isEnriching, runs,
                   failedEnrichmentIds, notFound, startDate, endDate>>
    /\ Render

\* handleSearchInputChange with the text typed: lines 266-279.
handleSearchInputChange(val) ==
    /\ AppFrame
    /\ ChatFrame
    /\ ~data.isNull
    /\ placeFilter' = (IF val = "" THEN NoPlaceFilter ELSE PlaceFilter(val, Undefined))
    /\ UNCHANGED <<data, upload, isProcessing, loading, mapsLoaded, isEnriching, runs,
                   failedEnrichmentIds, notFound, startDate, endDate, searchAllTime>>
    /\ Render

\* selectSuggestion(placeName, placeId): lines 297-300.
selectSuggestion(placeName, placeId) ==
    /\ AppFrame
    /\ ChatFrame
    /\ ~data.isNull
    /\ placeFilter' = PlaceFilter(placeName, placeId)
    /\ UNCHANGED <<data, upload, isProcessing, loading, mapsLoaded, isEnriching, runs,
                   failedEnrichmentIds, notFound, startDate, endDate, searchAllTime>>
    /\ Render

\* resetFilters: lines 244-253.
resetFilters ==
    /\ AppFrame
    /\ ChatFrame
    /\ ~data.isNull
    /\ startDate' = DayOf(data.stats.dateRange.start)
    /\ endDate' = DayOf(data.stats.dateRange.end)
    /\ placeFilter' = NoPlaceFilter
    /\ searchAllTime' = FALSE
    /\ UNCHANGED <<data, upload, isProcessing, loading, mapsLoaded, isEnriching, runs,
                   failedEnrichmentIds, notFound>>
    /\ Render

\* The runs without the one at i.
Without(i) == [k \in 1..(Len(runs) - 1) |-> IF k < i THEN runs[k] ELSE runs[k + 1]]

\* enrichData up to its first await: lines 115-131.
enrichData ==
    /\ AppFrame
    /\ ChatFrame
    /\ canEnrich(data, mapsLoaded, isEnriching)
    /\ isEnriching' = TRUE
    /\ runs' = Append(runs, Run(data.events, startDate, endDate))
    /\ UNCHANGED <<data, upload, isProcessing, loading, mapsLoaded,
                   failedEnrichmentIds, notFound, filterVars, view>>

\* importLibrary("places") resolves: the ids to look up are chosen, and
\* the run ends if there are none or goes on to its first lookup: lines
\* 131-161.
ImportResolved(i) ==
    /\ AppFrame
    /\ ChatFrame
    /\ i \in 1..Len(runs)
    /\ runs[i].awaits = "importLibrary"
    /\ LET ids == limitedIds(runs[i].events, runs[i].startDate, runs[i].endDate,
                             failedEnrichmentIds)
       IN IF Len(ids) = 0
          THEN /\ isEnriching' = FALSE
               /\ runs' = Without(i)
          ELSE /\ runs' = [runs EXCEPT ![i].awaits = "fetchFields",
                                       ![i].pending = ids,
                                       ![i].newEvents = runs[i].events]
               /\ UNCHANGED isEnriching
    /\ UNCHANGED <<data, upload, isProcessing, loading, mapsLoaded,
                   failedEnrichmentIds, notFound, filterVars, view>>

\* importLibrary("places") rejects: the outer catch and finally, lines
\* 197-201.
ImportRejected(i) ==
    /\ AppFrame
    /\ ChatFrame
    /\ i \in 1..Len(runs)
    /\ runs[i].awaits = "importLibrary"
    /\ isEnriching' = FALSE
    /\ runs' = Without(i)
    /\ UNCHANGED <<data, upload, isProcessing, loading, mapsLoaded,
                   failedEnrichmentIds, notFound, filterVars, view>>

\* place.fetchFields settles for the first pending id: the events of the
\* place are replaced or the failure is noted, and the run goes on to the
\* next lookup or, after the last one, stores its events and ends: lines
\* 159-201.  Without setData the memoised filteredEvents and filteredStats
\* of lines 205-242 are kept.
FetchSettled(i, place) ==
    /\ AppFrame
    /\ ChatFrame
    /\ i \in 1..Len(runs)
    /\ runs[i].awaits = "fetchFields"
    /\ UNCHANGED <<upload, isProcessing, loading, mapsLoaded, filterVars>>
    /\ LET placeId == Head(runs[i].pending)
           named == ~place.rejected /\ Truthy(place.displayName)
           newEvents == IF named THEN enrichOne(runs[i].newEvents, placeId, place)
                        ELSE runs[i].newEvents
           hasUpdates == \/ runs[i].hasUpdates
                         \/ named /\ \E k \in 1..Len(runs[i].newEvents) :
                                        runs[i].newEvents[k].placeId = placeId
           gone == place.rejected /\ IsGone(place.message)
           rest == Tail(runs[i].pending)
       IN /\ place \in PlaceOutcomes(placeId)
          /\ failedEnrichmentIds' =
                (IF gone THEN failedEnrichmentIds \cup {placeId} ELSE failedEnrichmentIds)
          /\ notFound' = (IF gone THEN notFound \cup {placeId} ELSE notFound)
          /\ IF Len(rest) > 0
             THEN /\ runs' = [runs EXCEPT ![i].pending = rest,
                                          ![i].newEvents = newEvents,
                                          ![i].hasUpdates = hasUpdates]
                  /\ UNCHANGED <<data, isEnriching, view>>
             ELSE /\ runs' = Without(i)
                  /\ isEnriching' = FALSE
                  /\ IF hasUpdates
                     THEN /\ \E clock \in ClockReadings, list \in {newEvents} :
                                data' = Data(list, calculateStats(list, clock))
                          /\ Render
                     ELSE UNCHANGED <<data, view>>

Places == {Str("ChIJ-1"), Str("ChIJ-2")}

AppNext ==
    \/ MapsScriptLoaded
    \/ \E jsonData \in Files : handleFileLoaded(jsonData)
    \/ LoadTimeout
    \/ Discard
    \/ \E days \in DateChoices : handleDateUpdate(days[1], days[2])
    \/ \E allTime \in BOOLEAN : handlePlaceFilterUpdate("Park", allTime)
    \/ \E val \in SearchTexts : handleSearchInputChange(val)
    \/ selectSuggestion("Blue Bottle", Str("ChIJ-1"))
    \/ resetFilters
    \/ enrichData
    \/ \E i \in 1..Len(runs) : ImportResolved(i)
    \/ \E i \in 1..Len(runs) : ImportRejected(i)
    \/ \E i \in 1..Len(runs), place \in UNION {PlaceOutcomes(id) : id \in Places} :
          FetchSettled(i, place)

\* A continuation of a run: one of its awaits settles.
RunStep ==
    \E i \in 1..Len(runs) :
        \/ ImportResolved(i)
        \/ ImportRejected(i)
        \/ \E place \in UNION {PlaceOutcomes(id) : id \in Places} : FetchSettled(i, place)

AppSpec == AppInit /\ [][AppNext]_vars

\* The steps enrichData depends on: it reads data, the date range, the
\* loaded script and the failed ids, and no place filter (lines 115-202).
EnrichNext ==
    \/ MapsScriptLoaded
    \/ \E jsonData \in Files : handleFileLoaded(jsonData)
    \/ LoadTimeout
    \/ Discard
    \/ \E days \in DateChoices : handleDateUpdate(days[1], days[2])
    \/ enrichData
    \/ RunStep

\* The promises a run awaits settle: the library import and each lookup
\* resolve or reject.
EnrichFairSpec == AppInit /\ [][EnrichNext]_vars /\ WF_vars(RunStep)

(***************************************************************************)
(* The chat.  A step is a handler of ChatInterface, the timer of its       *)
(* follow-up effect, or a continuation of a handler after its await, with  *)
(* the render that follows.  The message list is display only and is left  *)
(* out.                                                                    *)
(***************************************************************************)
\* What a chat step leaves of the App.
AppKept ==
    UNCHANGED <<data, upload, isProcessing, loading, mapsLoaded, isEnriching, runs,
                failedEnrichmentIds, notFound>>

\* The tab buttons: setActiveTab, lines 500 and 507.
SwitchTab(tab) ==
    /\ AppFrame
    /\ AppKept
    /\ ~data.isNull
    /\ tab # activeTab
    /\ activeTab' = tab
    /\ IF tab = "dashboard" THEN Unmount
       ELSE UNCHANGED <<chat, calls, asked, toolReplies, followUps>>
    /\ UNCHANGED <<filterVars, view>>

\* The calls without the one at i.
WithoutCall(i) == [k \in 1..(Len(calls) - 1) |-> IF k < i THEN calls[k] ELSE calls[k + 1]]

\* handleSend up to its await: ChatInterface.tsx lines 83-93.  The events
\* handed over are all the events of data.
handleSend(text) ==
    /\ AppFrame
    /\ AppKept
    /\ ChatMounted
    /\ Trim(text) # ""
    /\ ~chat.isLoading
    /\ asked < MaxMessages
    /\ asked' = asked + 1
    /\ chat' = [chat EXCEPT !.isLoading = TRUE]
    /\ calls' = Append(calls, Call("handleSend", asked + 1, data.events, FALSE))
    /\ UNCHANGED <<activeTab, toolReplies, followUps, filterVars, view>>

\* The call of handleSend settles: lines 93-144.  onDateChange and
\* onPlaceFilter are the handlers of the App and set its filters; the
\* state setters of a ChatInterface that is no longer mounted do nothing.
\* The render that follows runs the follow-up effect, which sets its timer
\* when there is a pending query (lines 54-81).
SendSettled(i, reply) ==
    /\ AppFrame
    /\ AppKept
    /\ i \in 1..Len(calls)
    /\ calls[i].handler = "handleSend"
    /\ LET call == calls[i]
           hasDates == ~reply.rejected /\ reply.filterUpdate # NoDates
           hasPlace == ~reply.rejected /\ ~reply.placeFilterUpdate.isNull
           hasToolCall == hasDates \/ hasPlace
       IN /\ startDate' = (IF hasDates THEN reply.filterUpdate[1] ELSE startDate)
          /\ endDate' = (IF hasDates THEN reply.filterUpdate[2] ELSE endDate)
          /\ placeFilter' =
                (IF hasPlace THEN PlaceFilter(reply.placeFilterUpdate.query, Undefined)
                 ELSE placeFilter)
          /\ searchAllTime' =
                (IF hasPlace THEN reply.placeFilterUpdate.allTime ELSE searchAllTime)
          /\ chat' = (IF call.orphan THEN chat
                      ELSE IF hasToolCall
                           THEN [chat EXCEPT !.pendingFollowUpQuery = call.query]
                           ELSE [chat EXCEPT !.isLoading = FALSE])
          /\ toolReplies' =
                (IF hasToolCall THEN toolReplies \cup {call.query} ELSE toolReplies)
          /\ calls' = WithoutCall(i)
          /\ UNCHANGED <<activeTab, asked, followUps>>
          /\ IF hasPlace \/ startDate' # startDate \/ endDate' # endDate
             THEN Render
             ELSE UNCHANGED view

\* The timer of the follow-up effect fires and executeFollowUp runs to its
\* await: lines 57-62 and 77.  The effect runs again whenever the events
\* or the pending query change, so the events and stats of its closure are
\* those shown.
FollowUpTimer ==
    /\ AppFrame
    /\ AppKept
    /\ ChatMounted
    /\ chat.pendingFollowUpQuery # NoQuery
    /\ ~chat.isFetchingFollowUp
    /\ chat' = [chat EXCEPT !.isFetchingFollowUp = TRUE, !.isLoading = TRUE]
    /\ calls' = Append(calls, Call("executeFollowUp", chat.pendingFollowUpQuery,
                                   view.events, TRUE))
    /\ followUps' = [followUps EXCEPT ![chat.pendingFollowUpQuery] = @ + 1]
    /\ UNCHANGED <<activeTab, asked, toolReplies, filterVars, view>>

\* The call of executeFollowUp settles, with a reply or an exception: the
\* text is shown and the finally of lines 70-74 runs.  Function calls in
\* the reply are not looked at.
FollowUpSettled(i) ==
    /\ AppFrame
    /\ AppKept
    /\ i \in 1..Len(calls)
    /\ calls[i].handler = "executeFollowUp"
    /\ chat' = (IF calls[i].orphan THEN chat ELSE NewChat)
    /\ calls' = WithoutCall(i)
    /\ UNCHANGED <<activeTab, asked, toolReplies, followUps, filterVars, view>>

\* handleGenerateInsights up to its await: lines 147-150.
handleGenerateInsights ==
    /\ AppFrame
    /\ AppKept
    /\ ChatMounted
    /\ ~chat.isLoading
    /\ Len(calls) < MaxCalls
    /\ chat' = [chat EXCEPT !.isLoading = TRUE]
    /\ calls' = Append(calls, Call("handleGenerateInsights", NoQuery, <<>>, TRUE))
    /\ UNCHANGED <<activeTab, asked, toolReplies, followUps, filterVars, view>>

\* generateTimelineInsights settles: the finally of lines 156-158.
InsightsSettled(i) ==
    /\ AppFrame
    /\ AppKept
    /\ i \in 1..Len(calls)
    /\ calls[i].handler = "handleGenerateInsights"
    /\ chat' = (IF calls[i].orphan THEN chat ELSE [chat EXCEPT !.isLoading = FALSE])
    /\ calls' = WithoutCall(i)
    /\ UNCHANGED <<activeTab, asked, toolReplies, followUps, filterVars, view>>

\* A timer fires or an awaited call settles.
ChatStep ==
    \/ FollowUpTimer
    \/ \E i \in 1..Len(calls) :
          \/ \E reply \in Replies : SendSettled(i, reply)
          \/ FollowUpSettled(i)
          \/ InsightsSettled(i)

ChatNext ==
    \/ handleFileLoaded(FileA)
    \/ LoadTimeout
    \/ Discard
    \/ \E tab \in {"dashboard", "analysis"} : SwitchTab(tab)
    \/ \E days \in DateChoices : handleDateUpdate(days[1], days[2])
    \/ \E text \in InputTexts : handleSend(text)
    \/ handleGenerateInsights
    \/ ChatStep

ChatSpec == AppInit /\ [][ChatNext]_vars

\* Timers fire and the calls awaited settle.
ChatFairSpec == ChatSpec /\ WF_vars(ChatStep)

(***************************************************************************)
(* Properties.                                                             *)
(***************************************************************************)
Parsed == phase # "loaded"

\* The events of the result that come from the record at (0-based) index.
EventsOf(index) ==
    {i \in 1..Len(result.events) : result.events[i].id.index = index}

\* C1: every Event of a returned result has a latitude and a longitude
\* that are finite numbers.
C1_CoordinatesFinite ==
    (Parsed /\ ~result.isNull) =>
        \A i \in 1..Len(result.events) :
            /\ IsFiniteNumber(result.events[i].lat)
            /\ IsFiniteNumber(result.events[i].lng)

\* C2: every Event of a returned result has a startTime that is a valid
\* instant (a record whose start timestamp does not parse emits no Event).
C2_StartTimeValid ==
    (Parsed /\ ~result.isNull) =>
        \A i \in 1..Len(result.events) : result.events[i].startTime.valid

\* a.startTime <= b.startTime on Dates: false when either is invalid.
StartLeq(a, b) == a.startTime.valid /\ b.startTime.valid /\ a.startTime.t <= b.startTime.t

\* a was pushed before b: record index, then path-point index.
EmittedBefore(a, b) ==
    \/ a.id.index < b.id.index
    \/ a.id.index = b.id.index /\ a.id.pIdx < b.id.pIdx

\* C3: the events of a returned result are sorted ascending by startTime,
\* and events with equal startTime keep the order in which they were
\* emitted.
C3_SortedStable ==
    (Parsed /\ ~result.isNull) =>
        \A i \in 1..(Len(result.events) - 1) :
            /\ StartLeq(result.events[i], result.events[i + 1])
            /\ (result.events[i].startTime.t = result.events[i + 1].startTime.t
                    => EmittedBefore(result.events[i], result.events[i + 1]))

\* The record has a start time field.
HasStartTime(obj) == Truthy(obj.startTime) \/ Truthy(obj.duration.startTimestamp)

\* Row 4 with its validity checks met: a position object with a coordinate
\* string and a timestamp that both parse, at an index that is kept.
ValidRawSignal(obj, index) ==
    /\ obj.position.ty = "object"
    /\ obj.position.LatLng.ty = "string" /\ obj.position.LatLng.s \in DOMAIN LatLngText
    /\ obj.position.timestamp.ty = "string" /\ obj.position.timestamp.s \in DOMAIN DateText
    /\ index % 50 = 0

\* Row 5 with its validity checks met: a placeVisit object with non-zero
\* E7 coordinates and a start timestamp that parses.
ValidLegacyVisit(obj) ==
    /\ obj.placeVisit.ty = "object"
    /\ obj.placeVisit.location.latitudeE7.ty = "number"
    /\ obj.placeVisit.location.latitudeE7.m # 0
    /\ obj.placeVisit.location.longitudeE7.ty = "number"
    /\ obj.placeVisit.location.longitudeE7.m # 0
    /\ ~Truthy(obj.placeVisit.location.address)
    /\ obj.placeVisit.duration.startTimestamp.ty = "string"
    /\ obj.placeVisit.duration.startTimestamp.s \in DOMAIN DateText

\* No record of the located array raises while it is converted.
NoRecordRaises ==
    \A i \in 1..Len(rawItems.items) : ~convertRecord(rawItems.items[i], i - 1).threw

\* C4: a record is converted by the first row of the table it satisfies;
\* in particular a record with a start time field but no visit, activity
\* or timelinePath member is still classified by rows 4 and 5, so a valid
\* raw signal or a valid legacy visit among such records emits an Event.
C4_LaterRowsReached ==
    (Parsed /\ rawItems.found /\ NoRecordRaises) =>
        \A i \in 1..Len(rawItems.items) :
            LET obj == rawItems.items[i]
            IN (/\ obj.ty = "object"
                /\ HasStartTime(obj)
                /\ obj.visit.ty = "undefined"
                /\ obj.activity.ty = "undefined"
                /\ obj.timelinePath.ty = "undefined"
                /\ ValidRawSignal(obj, i - 1) \/ ValidLegacyVisit(obj))
               => EventsOf(i - 1) # {}

\* The record holds both a "visit" member and an "activity" member.
HasVisitAndActivity(obj) ==
    obj.ty = "object" /\ obj.visit.ty # "undefined" /\ obj.activity.ty # "undefined"

\* The record emitted one VISIT event or nothing.
OneVisitOrNothing(index) ==
    /\ Cardinality(EventsOf(index)) <= 1
    /\ \A i \in EventsOf(index) : result.events[i].type = "VISIT"

\* C5 as claimed: a record that contains both a "visit" member and an
\* "activity" member never emits a MOVE event: it emits one VISIT event or
\* nothing.
C5_VisitMemberWins ==
    (Parsed /\ rawItems.found) =>
        \A i \in 1..Len(rawItems.items) :
            HasVisitAndActivity(rawItems.items[i]) => OneVisitOrNothing(i - 1)

\* C5 as amended: a record whose "visit" member is truthy (not null, false,
\* 0 or "") and that holds an "activity" member never emits a MOVE event:
\* it emits at most one event, a VISIT, or a POINT when it has no start
\* time field and holds a truthy "position" member.
C5_TruthyVisitWins ==
    (Parsed /\ rawItems.found) =>
        \A i \in 1..Len(rawItems.items) :
            LET obj == rawItems.items[i]
            IN (HasVisitAndActivity(obj) /\ TruthyObj(obj.visit)) =>
                  /\ Cardinality(EventsOf(i - 1)) <= 1
                  /\ \A j \in EventsOf(i - 1) :
                        \/ result.events[j].type = "VISIT"
                        \/ /\ result.events[j].type = "POINT"
                           /\ ~HasStartTime(obj)
                           /\ TruthyObj(obj.position)

\* A record with a visit object and an activity that alone would convert
\* to a MOVE has emitted a VISIT.
C5_Witness ==
    /\ Parsed /\ rawItems.found /\ Len(rawItems.items) = 1
    /\ HasVisitAndActivity(rawItems.items[1])
    /\ TruthyObj(rawItems.items[1].visit)
    /\ rawItems.items[1].activity = ActivityObject(GoodLatLng, Str("WALKING"))
    /\ Len(result.events) = 1
    /\ result.events[1].type = "VISIT"

\* The events of a sequence as a set.
EventSet(events) == {events[i] : i \in 1..Len(events)}

\* C6: the Events of a record depend only on that record and its index:
\* replacing one record by a value that matches no shape or fails its
\* validity checks removes that record's Events and leaves the Events of
\* all other records in the result.
C6_FailuresAbsorbed ==
    phase = "reparsed" =>
        /\ \A e \in EventSet(result.events) : e.id.index # replaced
        /\ \A e \in EventSet(prevResult.events) :
              e.id.index # replaced => e \in EventSet(result.events)
        /\ \A i \in 1..Len(rawItems.items) :
              (i - 1 # replaced /\ ~convertRecord(rawItems.items[i], i - 1).threw)
                  => EventSet(convertRecord(rawItems.items[i], i - 1).events)
                        \subseteq EventSet(result.events)

\* C7: parseTimelineData never raises: when converting a record raises,
\* the call returns null, with no events.
C7_NeverRaises ==
    Parsed =>
        /\ ~result.threw
        /\ (rawItems.found /\ ~NoRecordRaises) => (result.isNull /\ result.events = <<>>)

\* A record raised after an earlier record had pushed an event, and the
\* call returned null.
C7_Witness ==
    /\ Parsed /\ rawItems.found /\ Len(rawItems.items) = 2
    /\ ~convertRecord(rawItems.items[1], 0).threw
    /\ convertRecord(rawItems.items[1], 0).events # <<>>
    /\ convertRecord(rawItems.items[2], 1).threw
    /\ result = ReturnNull

\* C8: the result is null when no array is located, when the located array
\* is empty and when the records yield no Events; a result that is not
\* null has at least one Event.
C8_NullOrNonEmpty ==
    Parsed =>
        /\ ~rawItems.found => result.isNull
        /\ (rawItems.found /\ Len(rawItems.items) = 0) => result.isNull
        /\ (rawItems.found /\ NoRecordRaises
              /\ \A i \in 1..Len(rawItems.items) :
                    convertRecord(rawItems.items[i], i - 1).events = <<>>)
            => result.isNull
        /\ ~result.isNull => Len(result.events) > 0

\* A non-empty array was located, no record raised, none emitted an Event,
\* and the result is null.
C8_Witness ==
    /\ Parsed /\ rawItems.found /\ Len(rawItems.items) = 2
    /\ NoRecordRaises
    /\ \A i \in 1..2 : convertRecord(rawItems.items[i], i - 1).events = <<>>
    /\ result.isNull

\* The resolution order the claim gives for the known top-level keys.
ClaimedKeys == <<"semanticSegments", "rawSignals", "timelineObjects", "locations", "features">>

\* The member of the document under the k-th claimed key is a non-empty
\* array.
Qualifies(k) ==
    LET hits == {i \in 1..Len(document.members) : document.members[i].key = ClaimedKeys[k]}
    IN \E i \in hits :
          document.members[i].val.ty = "array" /\ Len(document.members[i].val.items) > 0

KeyArray(k) ==
    LET i == CHOOSE j \in 1..Len(document.members) : document.members[j].key = ClaimedKeys[k]
    IN document.members[i].val.items

\* C9: an array document is located as itself; otherwise the located array
\* is the value of the first claimed key whose value is a non-empty array,
\* whatever other keys the document holds; the search runs only when no
\* key qualifies.
C9_ResolutionOrder ==
    Parsed =>
        /\ document.ty = "array" => rawItems = FoundArray(document.items)
        /\ document.ty = "object" =>
              /\ \A k \in 1..Len(ClaimedKeys) :
                    (Qualifies(k) /\ \A j \in 1..(k - 1) : ~Qualifies(j))
                        => rawItems = FoundArray(KeyArray(k))
              /\ (\A k \in 1..Len(ClaimedKeys) : ~Qualifies(k)) =>
                    LET best == search(document, 0, NoBest)
                    IN rawItems = IF best.found THEN FoundArray(best.items) ELSE NoArray

\* The first key is absent, the second holds an empty array, the third is
\* no array, the fourth and fifth hold non-empty arrays, an unknown key
\* holds a location-bearing array: the fourth key's array is located.
C9_Witness ==
    /\ Parsed /\ document.ty = "object"
    /\ Get(document, "semanticSegments").ty = "undefined"
    /\ Get(document, "rawSignals") = ArrayNode(<<>>)
    /\ Get(document, "timelineObjects") = PrimitiveNode
    /\ Qualifies(4) /\ Qualifies(5)
    /\ Get(document, "archive").ty = "array"
    /\ rawItems = FoundArray(<<NamedItem("locations")>>)

\* Every array of the document with the number of objects between it and
\* the root (the root itself included), at any depth.
RECURSIVE ArraysBelow(_, _)
ArraysBelow(node, depth) ==
    IF node.ty = "array" THEN {[depth |-> depth, items |-> node.items]}
    ELSE IF node.ty = "object"
    THEN UNION {ArraysBelow(node.members[i].val, depth + 1) : i \in 1..Len(node.members)}
    ELSE {}

\* The fallback search runs: the document is an object and none of the
\* known keys holds a non-empty array.
FallbackRuns ==
    /\ document.ty = "object"
    /\ \A k \in 1..Len(ClaimedKeys) : ~Qualifies(k)

\* C10: when the fallback search runs, the array it returns lies at most 5
\* levels of object nesting below the root and has the highest count of
\* location-bearing records among such arrays; a deeper array is never
\* returned; when no array is found the result is null.
C10_BoundedBestArray ==
    (Parsed /\ FallbackRuns) =>
        /\ rawItems.found =>
              /\ \E a \in ArraysBelow(document, 0) :
                    a.depth <= 5 /\ a.items = rawItems.items
              /\ \A b \in ArraysBelow(document, 0) :
                    b.depth <= 5 => LocationCount(b.items) <= LocationCount(rawItems.items)
              /\ \A b \in ArraysBelow(document, 0) :
                    b.depth > 5 => b.items # rawItems.items
        /\ ~rawItems.found => result.isNull

\* An array at depth 5 with one location-bearing record is returned
\* although an array at depth 6 holds two.
C10_Witness ==
    /\ Parsed /\ FallbackRuns
    /\ rawItems.found
    /\ LocationCount(rawItems.items) = 1
    /\ \E a \in ArraysBelow(document, 0) : a.depth = 5 /\ a.items = rawItems.items
    /\ \E b \in ArraysBelow(document, 0) : b.depth = 6 /\ LocationCount(b.items) = 2

\* Rows 1 to 3 of the table: a start time field with a visit or activity
\* member or a timelinePath array.
SemanticRecord(obj) ==
    /\ HasStartTime(obj)
    /\ TruthyObj(obj.visit) \/ TruthyObj(obj.activity) \/ obj.timelinePath.ty = "array"

\* Row 3: a semantic path record.
SemanticPathRecord(obj) ==
    /\ obj.ty = "object"
    /\ HasStartTime(obj)
    /\ ~TruthyObj(obj.visit) /\ ~TruthyObj(obj.activity)
    /\ obj.timelinePath.ty = "array"

ParseableTime(v) == v.ty = "string" /\ v.s \in DOMAIN DateText

\* The path entry has a coordinate string and a time that parse (its own
\* time or, when it has none, the record's start time).
ParseablePoint(obj, pathPt) ==
    /\ pathPt.ty = "object"
    /\ pathPt.point.ty = "string" /\ pathPt.point.s \in DOMAIN LatLngText
    /\ \/ ParseableTime(pathPt.time)
       \/ /\ pathPt.time = Undefined
          /\ ParseableTime(IF obj.startTime # Undefined THEN obj.startTime
                           ELSE obj.duration.startTimestamp)

AllPointsParseable(obj) ==
    \A k \in 1..Len(obj.timelinePath.pts) : ParseablePoint(obj, obj.timelinePath.pts[k])

\* The path indices of the events of the result from the record at index.
PathIndicesOf(index) == {result.events[i].id.pIdx : i \in EventsOf(index)}

\* C11: a semantic path record whose n path points all have a parseable
\* coordinate string and time yields POINT events for exactly the path
\* indices 0, 5, 10, ... below n: ceil(n/5) events.
C11_PathDecimation ==
    (Parsed /\ rawItems.found /\ NoRecordRaises) =>
        \A i \in 1..Len(rawItems.items) :
            LET obj == rawItems.items[i]
                n == Len(obj.timelinePath.pts)
            IN (SemanticPathRecord(obj) /\ AllPointsParseable(obj)) =>
                  /\ \A j \in EventsOf(i - 1) : result.events[j].type = "POINT"
                  /\ PathIndicesOf(i - 1) = {p \in 0..(n - 1) : p % 5 = 0}
                  /\ Cardinality(EventsOf(i - 1)) = (n + 4) \div 5

\* A path of eleven parseable points has been parsed behind another record
\* and gave the events of path indices 0, 5 and 10.
C11_Witness ==
    /\ phase = "parsed" /\ rawItems.found /\ Len(rawItems.items) = 2
    /\ SemanticPathRecord(rawItems.items[2])
    /\ AllPointsParseable(rawItems.items[2])
    /\ Len(rawItems.items[2].timelinePath.pts) = 11
    /\ PathIndicesOf(1) = {0, 5, 10}
    /\ Cardinality(EventsOf(1)) = 3

\* Row 4: a position object in a record that rows 1 to 3 do not take.
RawSignalRecord(obj) ==
    obj.ty = "object" /\ TruthyObj(obj.position) /\ ~SemanticRecord(obj)

\* C12: a raw-signal record emits at most one event, a POINT, and only at
\* an index of the located array that is a multiple of 50; at any other
\* index it emits nothing.
C12_RawDecimation ==
    (Parsed /\ rawItems.found /\ NoRecordRaises) =>
        \A i \in 1..Len(rawItems.items) :
            RawSignalRecord(rawItems.items[i]) =>
                /\ Cardinality(EventsOf(i - 1)) <= 1
                /\ \A j \in EventsOf(i - 1) : result.events[j].type = "POINT"
                /\ (i - 1) % 50 # 0 => EventsOf(i - 1) = {}

\* An array of 51 valid raw signals has been parsed: the records at index 0
\* and 50 gave one event each, the valid record at index 49 gave none.
C12_Witness ==
    /\ phase = "parsed" /\ rawItems.found /\ Len(rawItems.items) = 51
    /\ \A i \in {1, 50, 51} :
          RawSignalRecord(rawItems.items[i]) /\ ValidRawSignal(rawItems.items[i], 0)
    /\ Cardinality(EventsOf(0)) = 1
    /\ Cardinality(EventsOf(50)) = 1
    /\ EventsOf(49) = {}

\* The number is exactly zero.
IsZero(v) == IsFiniteNumber(v) /\ v.m = 0

\* An E7 field that is absent or zero (0 or "0"), a plain field that is
\* absent or 0.
AbsentOrZeroE7(e7) ==
    \/ e7 = Undefined
    \/ IsZero(e7)
    \/ e7.ty = "string" /\ e7.s \in DOMAIN FloatText /\ IsZero(FloatText[e7.s])

AbsentOrZero(v) == v = Undefined \/ IsZero(v)

ZeroLatitude(loc) ==
    AbsentOrZeroE7(loc.latitudeE7) /\ AbsentOrZero(loc.latitude) /\ AbsentOrZero(loc.lat)

ZeroLongitude(loc) ==
    AbsentOrZeroE7(loc.longitudeE7) /\ AbsentOrZero(loc.longitude) /\ AbsentOrZero(loc.lng)

\* The locations of the legacy members of a record.
LegacyLocations(obj) ==
    {obj.placeVisit.location, obj.visit.location,
     obj.activitySegment.endLocation, obj.activitySegment.startLocation,
     obj.activity.endLocation, obj.activity.startLocation}

\* Row 5: a placeVisit/visit or activitySegment/activity member in a record
\* that rows 1 to 4 do not take.
LegacyRecord(obj) ==
    /\ obj.ty = "object" /\ ~SemanticRecord(obj) /\ ~TruthyObj(obj.position)
    /\ \/ TruthyObj(obj.placeVisit) \/ TruthyObj(obj.visit)
       \/ TruthyObj(obj.activitySegment) \/ TruthyObj(obj.activity)

LegacyEvent(e) == e.id.tag \in {"legacy-v", "legacy-a"}

\* C13: a legacy record whose latitude or whose longitude resolves to
\* exactly zero produces no Event: no legacy Event of the result has a zero
\* coordinate, and a legacy record whose latitude fields (or longitude
\* fields) are all zero or absent has no Event in the result.
C13_ZeroCoordinateRejected ==
    (Parsed /\ rawItems.found /\ NoRecordRaises) =>
        /\ \A j \in 1..Len(result.events) :
              LegacyEvent(result.events[j]) =>
                  ~IsZero(result.events[j].lat) /\ ~IsZero(result.events[j].lng)
        /\ \A i \in 1..Len(rawItems.items) :
              LET obj == rawItems.items[i]
              IN (/\ LegacyRecord(obj)
                  /\ \/ \A loc \in LegacyLocations(obj) : ZeroLatitude(loc)
                     \/ \A loc \in LegacyLocations(obj) : ZeroLongitude(loc))
                 => EventsOf(i - 1) = {}

\* A legacy visit with latitudeE7 = 0, a good longitudeE7 and a start
\* timestamp that parses has been parsed, and the result is null.
C13_Witness ==
    /\ phase = "parsed" /\ rawItems.found /\ Len(rawItems.items) = 1
    /\ LegacyRecord(rawItems.items[1])
    /\ rawItems.items[1].placeVisit.location.latitudeE7 = Num(0, 0)
    /\ rawItems.items[1].placeVisit.location.latitude = Undefined
    /\ rawItems.items[1].placeVisit.location.lat = Undefined
    /\ rawItems.items[1].placeVisit.location.longitudeE7 = Num(-3400000, 0)
    /\ rawItems.items[1].placeVisit.location.address = Undefined
    /\ ParseableTime(rawItems.items[1].placeVisit.duration.startTimestamp)
    /\ result.isNull

\* C14: no two Events of a returned result have the same id.
C14_IdsUnique ==
    (Parsed /\ ~result.isNull) =>
        \A i, j \in 1..Len(result.events) :
            i # j => IdText(result.events[i].id) # IdText(result.events[j].id)

\* A result that holds two events of one path record and an event of
\* another record.
C14_Witness ==
    /\ Parsed /\ ~result.isNull
    /\ \E i, j, k \in 1..Len(result.events) :
          /\ i # j
          /\ result.events[i].id.tag = "tp" /\ result.events[j].id.tag = "tp"
          /\ result.events[i].id.index = result.events[j].id.index
          /\ result.events[k].id.index # result.events[i].id.index

\* calculateStats has returned for the event list.
Aggregated == phase = "aggregated"

\* The positions of the VISIT and of the MOVE events of the list.
Visits == {i \in 1..Len(eventList) : eventList[i].type = "VISIT"}

Moves == {i \in 1..Len(eventList) : eventList[i].type = "MOVE"}

\* C15: totalVisits is the number of VISIT events and uniquePlaces the
\* number of distinct titles among the VISIT events.
C15_VisitCounts ==
    Aggregated =>
        /\ statsOut.totalVisits = Cardinality(Visits)
        /\ statsOut.uniquePlaces = Cardinality({eventList[i].title : i \in Visits})

\* Two visits with one title and an event that is not a visit.
C15_Witness ==
    /\ Aggregated
    /\ Len(eventList) = 3
    /\ statsOut.totalVisits = 2
    /\ statsOut.uniquePlaces = 1

RECURSIVE SumCounts(_)
SumCounts(entries) ==
    IF entries = <<>> THEN 0
    ELSE entries[Len(entries)].count + SumCounts(SubSeq(entries, 1, Len(entries) - 1))

\* C16: placeVisitCounts has one key per title of a VISIT event, mapped to
\* the number of VISIT events with that title, and no other key; its
\* values sum to totalVisits and it has uniquePlaces keys.
C16_PlaceVisitCounts ==
    Aggregated =>
        LET counts == statsOut.placeVisitCounts
        IN /\ \A j, k \in 1..Len(counts) : j # k => counts[j].key # counts[k].key
           /\ \A j \in 1..Len(counts) :
                 /\ \E i \in Visits : eventList[i].title = Str(counts[j].key)
                 /\ counts[j].count =
                        Cardinality({i \in Visits : eventList[i].title = Str(counts[j].key)})
           /\ \A i \in Visits :
                 \E j \in 1..Len(counts) : Str(counts[j].key) = eventList[i].title
           /\ SumCounts(counts) = statsOut.totalVisits
           /\ Len(counts) = statsOut.uniquePlaces

\* Three visits under two titles: one title counted twice.
C16_Witness ==
    /\ Aggregated
    /\ Cardinality(Visits) = 3
    /\ Len(statsOut.placeVisitCounts) = 2
    /\ \E j \in 1..2 : statsOut.placeVisitCounts[j].count = 2

\* The distances of the events that carry one, summed.
RECURSIVE SumDistances(_)
SumDistances(events) ==
    IF events = <<>> THEN 0
    ELSE LET last == events[Len(events)]
         IN (IF last.distanceMeters = Undefined THEN 0 ELSE last.distanceMeters.m)
            + SumDistances(SubSeq(events, 1, Len(events) - 1))

\* C17: totalDistanceKm is the sum of the distanceMeters of the events
\* that carry one, divided by 1000 and rounded to the nearest whole number.
C17_DistanceRounded ==
    Aggregated =>
        /\ IsFiniteNumber(statsOut.totalDistanceKm)
        /\ statsOut.totalDistanceKm.e = 0
        /\ LET km == statsOut.totalDistanceKm.m
               sum == SumDistances(eventList)
           IN /\ 2 * (1000 * km - sum) <= 1000
              /\ 2 * (sum - 1000 * km) <= 1000

\* 1999 metres over two moves, next to an event without a distance, give
\* 2 kilometres.
C17_Witness ==
    /\ Aggregated
    /\ SumDistances(eventList) = 1999
    /\ \E i \in 1..Len(eventList) : eventList[i].distanceMeters = Undefined
    /\ statsOut.totalDistanceKm = Num(2, 0)

\* The cities of the VISIT events, the visits to a city, and the position
\* of the first of them.
VisitedCities == {eventList[i].city : i \in {j \in Visits : Truthy(eventList[j].city)}}

CityVisits(city) == {i \in Visits : eventList[i].city = city}

FirstSeen(city) == CHOOSE i \in CityVisits(city) : \A j \in CityVisits(city) : i <= j

\* C18: topCities has at most 5 entries (city, number of VISIT events with
\* that city), in non-increasing count order, equal counts in the order
\* the cities were first met, and no city left out has a higher count than
\* one that is listed.
C18_TopCities ==
    Aggregated =>
        LET top == statsOut.topCities
            listed == {top[k].name : k \in 1..Len(top)}
        IN /\ Len(top) <= 5
           /\ Len(top) = 5 \/ Len(top) = Cardinality(VisitedCities)
           /\ listed \subseteq VisitedCities
           /\ \A j, k \in 1..Len(top) : j # k => top[j].name # top[k].name
           /\ \A k \in 1..Len(top) : top[k].count = Cardinality(CityVisits(top[k].name))
           /\ \A k \in 1..(Len(top) - 1) :
                 /\ top[k].count >= top[k + 1].count
                 /\ top[k].count = top[k + 1].count
                        => FirstSeen(top[k].name) < FirstSeen(top[k + 1].name)
           /\ \A city \in VisitedCities \ listed :
                 \A k \in 1..Len(top) : top[k].count >= Cardinality(CityVisits(city))

\* Six cities visited, the first one met only once: it is left out of the
\* five listed, which hold a city visited twice ahead of cities visited
\* once.
C18_Witness ==
    /\ Aggregated
    /\ Cardinality(VisitedCities) = 6
    /\ Len(statsOut.topCities) = 5
    /\ statsOut.topCities[1].count = 2
    /\ statsOut.topCities[1].name # eventList[1].city
    /\ statsOut.topCities[5].count = 1
    /\ \A k \in 1..5 : statsOut.topCities[k].name # eventList[6].city
    /\ Cardinality(CityVisits(eventList[6].city)) = 1

\* The single entry ("Recorded Points", number of events).
RecordedPoints == <<[name |-> Str("Recorded Points"), value |-> Len(eventList)]>>

RECURSIVE SumValues(_)
SumValues(entries) ==
    IF entries = <<>> THEN 0
    ELSE entries[Len(entries)].value + SumValues(SubSeq(entries, 1, Len(entries) - 1))

TypedMoves == {i \in Moves : Truthy(eventList[i].activityType)}

DateLeq(a, b) == a = b \/ DateLess(a, b)

\* C20: for a non-empty list dateRange.start is the minimum startTime and
\* dateRange.end the maximum over all startTime and endTime values, so
\* start <= end and every startTime and endTime lies within the range.
C20_DateRangeCovers ==
    (Aggregated /\ Len(eventList) > 0) =>
        LET range == statsOut.dateRange
            starts == {eventList[i].startTime : i \in 1..Len(eventList)}
            ends == {eventList[i].endTime : i \in 1..Len(eventList)}
        IN /\ range.start \in starts
           /\ \A d \in starts : DateLeq(range.start, d)
           /\ range.end \in starts \cup ends
           /\ \A d \in starts \cup ends : DateLeq(d, range.end)
           /\ DateLeq(range.start, range.end)

(***************************************************************************)
(* calculateStats on the empty list, on a reordered list, and its effect   *)
(* on its argument.                                                        *)
(***************************************************************************)
\* C21 as claimed: calculateStats on the empty list returns zero totals,
\* empty topCities and placeVisitCounts, and a dateRange whose start and
\* end are both the current instant, the same valid date.
C21_EmptyStats ==
    (Aggregated /\ eventList = <<>>) =>
        /\ statsOut.totalDistanceKm = Num(0, 0)
        /\ statsOut.totalVisits = 0
        /\ statsOut.uniquePlaces = 0
        /\ statsOut.topCities = <<>>
        /\ statsOut.placeVisitCounts = <<>>
        /\ statsOut.dateRange.start.valid
        /\ statsOut.dateRange.end.valid
        /\ statsOut.dateRange.start = statsOut.dateRange.end

Reaggregated == phase = "reaggregated"

\* The entries of a list, without their order.
EntrySet(entries) == {entries[k] : k \in 1..Len(entries)}

\* A count that cities on both sides of the cut-off of topCities share:
\* fewer than 5 cities are visited more often, more than 5 at least as often.
TieAtCutOff ==
    \E c \in VisitedCities :
        LET n == Cardinality(CityVisits(c))
        IN /\ Cardinality({d \in VisitedCities : Cardinality(CityVisits(d)) > n})
                < TopCityCount
           /\ Cardinality({d \in VisitedCities : Cardinality(CityVisits(d)) >= n})
                > TopCityCount

\* What two results share whatever the order of the list: every field but
\* dateRange, the maps and lists compared without their order.
SameButDateRange(a, b) ==
    /\ a.totalDistanceKm = b.totalDistanceKm
    /\ a.totalVisits = b.totalVisits
    /\ a.uniquePlaces = b.uniquePlaces
    /\ EntrySet(a.placeVisitCounts) = EntrySet(b.placeVisitCounts)
    /\ EntrySet(a.activityBreakdown) = EntrySet(b.activityBreakdown)
    /\ ~TieAtCutOff => EntrySet(a.topCities) = EntrySet(b.topCities)

\* C22 as claimed: calculateStats gives a list and any reordering of it
\* the same totalDistanceKm, totalVisits, uniquePlaces, placeVisitCounts
\* and dateRange, the same set of activityBreakdown pairs and, when no
\* counts tie at the cut-off, the same topCities counts; twice on the same
\* list it gives equal results.
C22_OrderIndependent ==
    Reaggregated =>
        /\ SameButDateRange(prevStats, statsOut)
        /\ prevStats.dateRange = statsOut.dateRange
        /\ prevList = eventList => EntrySet(prevStats.topCities) = EntrySet(statsOut.topCities)

\* C22: the same, for lists whose distances are whole metres, with the
\* dateRange compared for non-empty lists only: on the empty list each call
\* reads the clock for itself.
C22_OrderIndependentNonEmpty ==
    Reaggregated =>
        /\ SameButDateRange(prevStats, statsOut)
        /\ Len(eventList) > 0 => prevStats.dateRange = statsOut.dateRange
        /\ prevList = eventList =>
              /\ prevStats.topCities = statsOut.topCities
              /\ prevStats.activityBreakdown = statsOut.activityBreakdown
              /\ prevStats.placeVisitCounts = statsOut.placeVisitCounts

\* A walk, a ride and a visit given in another order: the breakdown lists
\* the two activities the other way round, and the range is the same.
C22_Witness ==
    /\ Reaggregated
    /\ prevList # eventList
    /\ Len(statsOut.activityBreakdown) = 2
    /\ statsOut.activityBreakdown # prevStats.activityBreakdown
    /\ statsOut.totalVisits = 1
    /\ statsOut.dateRange.start # eventList[1].startTime

\* A Stats value (types.ts DashboardStats): a finite number of kilometres,
\* counts, lists of entries, and a range of two dates.
IsStats(s) ==
    /\ IsFiniteNumber(s.totalDistanceKm)
    /\ s.totalVisits \in Nat
    /\ s.uniquePlaces \in Nat
    /\ \A k \in 1..Len(s.topCities) : s.topCities[k].count \in Nat
    /\ \A k \in 1..Len(s.activityBreakdown) : s.activityBreakdown[k].value \in Nat
    /\ \A k \in 1..Len(s.placeVisitCounts) : s.placeVisitCounts[k].count \in Nat
    /\ DOMAIN s.dateRange = {"start", "end"}

CityByRule(address) ==
    IF address \in {Undefined, JsNull, Str("")} THEN Undefined
    ELSE LET segments == AddressParts[address.s]
             last == Len(segments)
         IN IF last >= 3
            THEN IF HasDigit(segments[last - 1])
                 THEN Str(segments[last - 2])
                 ELSE Str(segments[last - 1])
            ELSE Str(segments[1])

\* A semantic visit that converts to an event, at one of the addresses.
VisitAtAddress(obj) ==
    /\ obj.ty = "object"
    /\ HasStartTime(obj)
    /\ ParseableTime(obj.startTime)
    /\ TruthyObj(obj.visit)
    /\ obj.visit.latLng.ty = "string" /\ obj.visit.latLng.s \in DOMAIN LatLngText
    /\ obj.visit.address \in Addresses

\* C24: the city of a visit is the one the rule gives its address.
C24_CityByRule ==
    (Parsed /\ ~result.isNull) =>
        \A i \in 1..Len(rawItems.items) :
            VisitAtAddress(rawItems.items[i]) =>
                /\ EventsOf(i - 1) # {}
                /\ \A k \in EventsOf(i - 1) :
                      result.events[k].city = CityByRule(rawItems.items[i].visit.address)

\* The visit at "Suite 5, 1 Elm St, Los Angeles, CA 90012, USA": five
\* segments, a digit in the second to last, the city the third from last.
C24_Witness ==
    /\ Parsed /\ ~result.isNull
    /\ Len(rawItems.items) = 1
    /\ VisitAtAddress(rawItems.items[1])
    /\ rawItems.items[1].visit.address.s \in DOMAIN AddressParts
    /\ Len(AddressParts[rawItems.items[1].visit.address.s]) = 5
    /\ result.events[1].city = Str("Los Angeles")

(***************************************************************************)
(* The App component: enrichment, stats and runs.                          *)
(***************************************************************************)
\* The fields an enrichment may set.
EnrichedFields == {"title", "subtitle", "city"}

\* The enrichment of one place applied: as many events in the same order,
\* those of other places as they were, those of the place with every field
\* but title, subtitle and city as it was (id, type, startTime, endTime,
\* lat and lng among them).
AppliedTo(before, after, placeId) ==
    /\ Len(after) = Len(before)
    /\ \A k \in 1..Len(before) :
          IF before[k].placeId = placeId
          THEN /\ DOMAIN after[k] = DOMAIN before[k]
               /\ {"id", "type", "startTime", "endTime", "lat", "lng"}
                      \subseteq DOMAIN before[k]
               /\ \A field \in DOMAIN before[k] \ EnrichedFields :
                     after[k][field] = before[k][field]
          ELSE after[k] = before[k]

StatsInSync ==
    /\ ~data.isNull =>
          /\ Len(data.events) > 0
          /\ \A clock \in ClockReadings :
                data.stats = calculateStats(data.events, clock)
    /\ view.isNull = data.isNull
    /\ ~data.isNull =>
          /\ view.events = filteredEvents(data, startDate, endDate, placeFilter,
                                          searchAllTime)
          /\ \E clock \in ClockReadings :
                view.stats = calculateStats(view.events, clock)

\* Only the end of a load, a discard and the end of a run set the data.
DataSetters ==
    data' # data =>
        \/ isProcessing /\ ~isProcessing'
        \/ data'.isNull
        \/ Len(runs') < Len(runs)

\* C26: at every moment data.stats = calculateStats(data.events) and the
\* stats shown are calculateStats of the events that pass the filters;
\* a change of filter leaves data as it was.
C26_StatsFollowEvents == []StatsInSync /\ [][DataSetters]_vars

\* Enriched data seen through a place filter that hides one of its three
\* visits.
C26_Witness ==
    /\ ~data.isNull
    /\ ~placeFilter.isNull
    /\ Len(data.events) = 3
    /\ Len(view.events) = 2
    /\ view.stats.totalVisits = 2
    /\ data.stats.totalVisits = 3
    /\ data.events[3].title = Str("Blue Bottle")

\* What an enrichment leaves of an event.
Base(e) == <<e.id, e.type, e.startTime, e.endTime, e.lat, e.lng, e.placeId>>

\* C27 as claimed: the events of data are those of the latest upload,
\* enriched or not.
C27_NewerUploadKept ==
    ~data.isNull =>
        /\ Len(data.events) = Len(upload)
        /\ \A k \in 1..Len(upload) : Base(data.events[k]) = Base(upload[k])

\* C28: there is at most one run, isEnriching is true exactly while there
\* is one, a run starts only when isEnriching is false, and isEnriching
\* returns to false after every start.
C28_OneRunThatEnds ==
    /\ [](Len(runs) <= 1 /\ (isEnriching <=> Len(runs) = 1))
    /\ [][Len(runs') > Len(runs) => ~isEnriching]_vars
    /\ (isEnriching ~> ~isEnriching)

\* A run that awaits its second lookup.
C28_Witness ==
    /\ isEnriching
    /\ Len(runs) = 1
    /\ runs[1].awaits = "fetchFields"
    /\ Len(runs[1].pending) = 1
    /\ runs[1].hasUpdates

\* A run issues the lookup of the first pending id when it gets to
\* awaiting it.
Issues(i) ==
    /\ runs'[i].awaits = "fetchFields"
    /\ \/ i > Len(runs)
       \/ runs[i].awaits # "fetchFields"
       \/ runs[i].pending # runs'[i].pending

\* C29: no run issues the lookup of a place id found gone since the latest
\* file was loaded, and the ids a run leaves out are those alone.
C29_GoneNotRetried ==
    /\ [](failedEnrichmentIds = notFound)
    /\ [][\A i \in 1..Len(runs') :
             Issues(i) => Head(runs'[i].pending) \notin notFound']_vars

\* A run on file A after its first place was found gone: it looks up the
\* second place only, although visits to the first are still unnamed.
C29_Witness ==
    /\ Len(runs) = 1
    /\ runs[1].awaits = "fetchFields"
    /\ runs[1].pending = <<Str("ChIJ-2")>>
    /\ runs[1].newEvents = runs[1].events
    /\ Str("ChIJ-1") \in notFound
    /\ runs[1].events[3].placeId = Str("ChIJ-1")
    /\ runs[1].events[3].title = Str("Visited Place")

(***************************************************************************)
(* The chat: follow-up requests.                                           *)
(***************************************************************************)
\* The call of handler h at some place of calls settles in this step.
Settles(h) ==
    \E i \in 1..Len(calls) : calls[i].handler = h /\ calls' = WithoutCall(i)

\* A user message has at most one follow-up request, and has one only if
\* its reply carried a filter tool call.
AtMostOneFollowUp ==
    \A m \in 1..MaxMessages :
        /\ followUps[m] <= 1
        /\ followUps[m] = 1 => m \in toolReplies

\* A follow-up request is made with tools disabled and with the events
\* shown when it is made.
FollowUpAsIssued ==
    /\ \A i \in 1..Len(calls) :
          calls[i].handler = "executeFollowUp" => calls[i].disableTools
    /\ [][followUps' # followUps =>
             /\ Len(calls') = Len(calls) + 1
             /\ calls'[Len(calls')].handler = "executeFollowUp"
             /\ calls'[Len(calls')].events = view'.events
             /\ calls'[Len(calls')].events =
                   filteredEvents(data, startDate, endDate, placeFilter, searchAllTime)]_vars

\* The reply to a follow-up changes no filter and leads to no follow-up.
FollowUpEnds ==
    [][Settles("executeFollowUp") =>
          /\ UNCHANGED <<filterVars, followUps>>
          /\ chat'.pendingFollowUpQuery \in {NoQuery, chat.pendingFollowUpQuery}]_vars

\* A user message is sent only when no request and no follow-up is
\* outstanding.
SendWhenQuiet ==
    [][asked' # asked =>
          /\ \A i \in 1..Len(calls) : calls[i].handler = "handleGenerateInsights"
          /\ chat.pendingFollowUpQuery = NoQuery]_vars

\* A reply with a filter tool call is followed by the follow-up request.
FollowUpFollows ==
    \A m \in 1..MaxMessages : (m \in toolReplies) ~> (followUps[m] = 1)

\* What holds of a ChatInterface from its mounting to its unmounting: a
\* message is sent only when no call of this chat is outstanding and no
\* follow-up is pending, a pending follow-up is given up only by the
\* unmounting, and is otherwise made, once.
WhileMounted ==
    /\ [][asked' # asked =>
             /\ \A i \in 1..Len(calls) : calls[i].orphan
             /\ chat.pendingFollowUpQuery = NoQuery]_vars
    /\ [][\A m \in 1..MaxMessages :
             chat.pendingFollowUpQuery = m /\ chat'.pendingFollowUpQuery # m =>
                \/ ~ChatMounted'
                \/ followUps'[m] = 1 /\ Settles("executeFollowUp")]_vars
    /\ \A m \in 1..MaxMessages :
          (chat.pendingFollowUpQuery = m) ~> (chat.pendingFollowUpQuery # m)

\* C30 as claimed: each user message whose reply carries a filter tool call
\* leads to exactly one follow-up request, made with tools disabled and on
\* the updated events, that changes no filter and starts no follow-up; no
\* user message is sent while a request or a follow-up is outstanding; and
\* isLoading returns to false.
C30_ChatProtocol ==
    /\ []AtMostOneFollowUp
    /\ FollowUpAsIssued
    /\ FollowUpEnds
    /\ SendWhenQuiet
    /\ FollowUpFollows
    /\ (chat.isLoading ~> ~chat.isLoading)

====
